---- MODULE Spec2Model ----
(***************************************************************************)
(* Uptimer worker: the leased scheduler tick, the per-monitor persistence  *)
(* batch, the hand-off of transition events to webhook dispatch, the       *)
(* daily-rollup lease and the public status builder.                       *)
(*                                                                         *)
(* The database is the shared state (tables locks, monitor_state,          *)
(* check_results, outages, notification_deliveries, ...).  Every `await`   *)
(* on the database is one atomic step; a D1 batch is one transaction and   *)
(* so one step.  Invocations of the cron handlers run concurrently and     *)
(* interleave at those steps.                                              *)
(***************************************************************************)
EXTENDS Integers, Sequences, FiniteSets, TLC

\* ------------------------------------------------------------------ bounds
\* Wall clock stops here (seconds).
MaxTime == 120
\* Invocations of one scheduled handler that may be running at once.
MaxInv == 2

\* ------------------------------------------------------- program constants
LOCK_LEASE_SECONDS == 55
CHECK_CONCURRENCY == 5
\* SQL NULL in an integer column (no stored time is -1).
NULL == -1

LOCK_NAME == <<"scheduler:tick">>

\* monitors table: the rows present (id -> interval_sec), all is_active = 1.
Monitors == {1}
\* Monitors of the status page runs.
StatusMonitors == {1, 2}
\* Bound: the monitors of the banner runs are 1..MaxMonitors.
MaxMonitors == 10
interval_sec == [m \in Monitors \cup StatusMonitors \cup (1..MaxMonitors) |-> 60]

CheckStatuses == {"up", "down", "unknown"}

\* ------------------------------------------------------------------- state
VARIABLES
  clock,                 \* Date.now() / 1000, counted from a UTC midnight
  locks,                 \* table locks: set of [name, expires_at], name unique
  monitor_state,         \* table monitor_state: monitor id -> row (NoState: no row)
  check_results,         \* table check_results: monitor id -> rows in insertion order
  outages,               \* table outages: monitor id -> rows in insertion order
  maintenance_windows,   \* table maintenance_windows joined with its monitor links
  channels,              \* ids of notification_channels with is_active = 1
  monitors,              \* table monitors: the rows inserted by POST /admin/monitors
  inv,                   \* running invocations of runScheduledTick, oldest first
  dispatchers,           \* dispatchWebhookToChannels calls handed to ctx.waitUntil, in hand-off order
  notification_deliveries, \* table notification_deliveries
  requests,              \* webhook requests sent so far, in order
  monitor_daily_rollups, \* table monitor_daily_rollups, by its key (monitor_id, day_start_at)
  rollups,               \* running invocations of runDailyRollup, oldest first
  lastInvocation,        \* the latest scheduled invocation and what acquireLease returned to it
  public_snapshots,      \* table public_snapshots, the row of key 'status'
  incidents,             \* table incidents: set of rows
  response,              \* the latest response of a route
  background,            \* tasks GET /status handed to executionCtx.waitUntil, in order
  call                   \* a library function under evaluation, or a client's walk through a paginated listing

vars == <<clock, locks, monitor_state, check_results, outages,
          maintenance_windows, channels, monitors, inv, dispatchers,
          notification_deliveries, requests,
          monitor_daily_rollups, rollups, lastInvocation, public_snapshots,
          incidents, response, background, call>>

\* Groups for UNCHANGED.
schedTables == <<monitor_state, check_results, outages>>
config == <<maintenance_windows, channels, monitors>>
deliveryVars == <<notification_deliveries, requests>>
rollupVars == <<monitor_daily_rollups, rollups>>
apiVars == <<incidents, response, background, call>>

\* The LEFT JOIN of a monitor without a monitor_state row: every column NULL.
NoState ==
  [status |-> "NULL", last_checked_at |-> NULL, last_changed_at |-> NULL,
   last_latency_ms |-> NULL, last_error |-> {},
   consecutive_failures |-> 0, consecutive_successes |-> 0]

NoSnapshot == [generated_at |-> NULL, valid |-> FALSE]
\* A stored row whose body_json does not parse as a PublicStatusResponse.
CorruptSnapshot == [generated_at |-> 0, valid |-> FALSE]
NoResponse == [status |-> 0]
NoCall == [fn |-> "none"]
NoInvocation == [handler |-> "none", at |-> 0, acquired |-> FALSE]
NoJob == [st |-> "none", row |-> NoState, suppressed |-> FALSE]

Init ==
  /\ clock = 0
  /\ locks = {}
  /\ monitor_state = [m \in Monitors |-> NoState]
  /\ check_results = [m \in Monitors |-> <<>>]
  /\ outages = [m \in Monitors |-> <<>>]
  \* Maintenance windows an operator may have stored before the run.
  /\ maintenance_windows \in
        { {},
          {[id |-> 1, starts_at |-> 55, ends_at |-> 115, monitor_ids |-> {1}]} }
  /\ channels \in {{}, {1}}
  /\ monitors = {}
  /\ inv = <<>>
  /\ dispatchers = <<>>
  /\ notification_deliveries = {}
  /\ requests = <<>>
  /\ monitor_daily_rollups = {}
  /\ rollups = <<>>
  /\ lastInvocation = NoInvocation
  /\ public_snapshots = NoSnapshot
  /\ incidents = {}
  /\ response = NoResponse
  /\ background = <<>>
  /\ call = NoCall

\* ------------------------------------------------------------------- lease
\* acquireLease: conditional upsert, granted iff no row of that name or the
\* row has expired.
leaseGranted(name, now) ==
  \A l \in locks : l.name = name => l.expires_at <= now

locksAfterAcquire(name, now, leaseSeconds) ==
  {l \in locks : l.name # name} \cup {[name |-> name, expires_at |-> now + leaseSeconds]}

\* ------------------------------------------------------------- the scheduler
floorMinute(t) == (t \div 60) * 60

\* Mutant: the selection returns the first due row only.
listDueMonitors_firstRow(checkedAt) ==
  LET due == { m \in DOMAIN monitor_state :
                 /\ monitor_state[m].status # "paused"
                 /\ \/ monitor_state[m].last_checked_at = NULL
                    \/ monitor_state[m].last_checked_at <= checkedAt - interval_sec[m] }
  IN { m \in due : \A other \in due : m <= other }

\* listDueMonitors: ids selected by the WHERE clause for this checkedAt.
listDueMonitors(checkedAt) ==
  { m \in DOMAIN monitor_state :
      /\ monitor_state[m].status # "paused"
      /\ \/ monitor_state[m].last_checked_at = NULL
         \/ monitor_state[m].last_checked_at <= checkedAt - interval_sec[m] }

\* Mutant: the window is taken to start after starts_at.
listMaintenanceSuppressedMonitorIds_strictStart(at, monitorIds) ==
  { m \in monitorIds :
      \E mw \in maintenance_windows :
        /\ mw.starts_at < at /\ mw.ends_at > at
        /\ m \in mw.monitor_ids }

\* listMaintenanceSuppressedMonitorIds(db, at, monitorIds)
listMaintenanceSuppressedMonitorIds(at, monitorIds) ==
  { m \in monitorIds :
      \E mw \in maintenance_windows :
        /\ mw.starts_at <= at /\ mw.ends_at > at
        /\ m \in mw.monitor_ids }

\* listActiveWebhookChannels
listActiveWebhookChannels == channels

RECURSIVE SortedSeq(_)
\* ORDER BY id
SortedSeq(S) ==
  IF S = {} THEN <<>>
  ELSE LET x == CHOOSE x \in S : \A y \in S : x <= y
       IN <<x>> \o SortedSeq(S \ {x})

\* toMonitorStatus of scheduled.ts: a value outside the domain is null.
toMonitorStatus(value) ==
  IF value \in {"up", "down", "maintenance", "paused", "unknown"} THEN value ELSE "NULL"

\* ------------------------------------------------------ monitor state machine
\* Flap-dampening thresholds.
\* Mutant: a second failure is needed before the status turns down.
F_off == 1 + 1

F == 1

\* Mutant: a second success is needed before the status turns up.
S_off == 1 + 1

S == 1

\* computeNextState(prev, outcome, checkedAt): prev is the selected row
\* (status "NULL": no previous state), outcome the probe's status.
computeNextState(prev, outcome, checkedAt) ==
  LET ps == prev.status
      cf == prev.consecutive_failures
      cs == prev.consecutive_successes
      mk(st, ch, act, f, s) ==
        [status |-> st, changed |-> ch, outageAction |-> act,
         lastChangedAt |-> IF ch THEN checkedAt ELSE prev.last_changed_at,
         consecutiveFailures |-> f, consecutiveSuccesses |-> s]
  IN CASE outcome = "down" ->
            IF ps \in {"up", "unknown", "NULL"} /\ cf + 1 >= F
              THEN mk("down", TRUE, "open", cf + 1, 0)
              ELSE mk("down", FALSE, "update", cf + 1, 0)
       [] outcome = "up" ->
            IF ps = "down" /\ cs + 1 >= S
              THEN mk("up", TRUE, "close", 0, cs + 1)
              ELSE mk("up", ps # "up", "none", 0, cs + 1)
       [] OTHER ->
            mk("unknown", ps # "unknown", "none", cf, cs)

\* ------------------------------------------------------- persistence batch
\* outcome.latencyMs: the probe's latency, a number for a probe that was
\* answered and null for one that was not.
latencyMs(outcome) == IF outcome = "up" THEN 20 ELSE NULL

\* Statement 1 of the batch: INSERT INTO check_results.
insertCheckResult(rows, checkedAt, outcome) ==
  Append(rows, [checked_at |-> checkedAt, status |-> outcome,
                latency_ms |-> latencyMs(outcome)])

\* outcome.error: null ({}) for a probe that was answered as expected, else
\* the probe's message ({message}); the messages of two probes are told
\* apart by the probe's outcome and tick.
outcomeError(outcome, checkedAt) ==
  IF outcome = "up" THEN {} ELSE {<<outcome, checkedAt>>}

\* Mutant: an up observation keeps the stored error whatever the status was.
computeStateLastError_keepOnUp(nextStatus, outcome, error, prevLastError) ==
  IF outcome = "up" THEN prevLastError ELSE error

\* computeStateLastError(nextStatus, outcome, prevLastError), with
\* outcome.status and outcome.error as `outcome` and `error`.
computeStateLastError(nextStatus, outcome, error, prevLastError) ==
  CASE nextStatus = "down" -> IF outcome = "up" THEN prevLastError ELSE error
    [] nextStatus = "up" -> IF outcome = "up" THEN {} ELSE error
    [] OTHER -> IF outcome = "up" THEN {} ELSE error

\* Statement 2: INSERT INTO monitor_state ... ON CONFLICT DO UPDATE.
upsertMonitorState(checkedAt, next, outcome, stateLastError) ==
  [status |-> next.status, last_checked_at |-> checkedAt,
   last_changed_at |-> next.lastChangedAt,
   last_latency_ms |-> latencyMs(outcome),
   last_error |-> stateLastError,
   consecutive_failures |-> next.consecutiveFailures,
   consecutive_successes |-> next.consecutiveSuccesses]

hasOngoingOutage(os) == \E k \in DOMAIN os : os[k].ended_at = NULL

\* Mutant: the insert without its NOT EXISTS guard.
openOutage_unguarded(os, checkedAt) ==
  Append(os, [started_at |-> checkedAt, ended_at |-> NULL])

\* Statement 3, outageAction = 'open': INSERT ... WHERE NOT EXISTS (ongoing).
openOutage(os, checkedAt) ==
  IF hasOngoingOutage(os) THEN os
  ELSE Append(os, [started_at |-> checkedAt, ended_at |-> NULL])

\* Mutant: the outage is closed at the wall clock, not at checkedAt.
closeOutage_wallClock(os, checkedAt) ==
  [k \in DOMAIN os |->
     IF os[k].ended_at = NULL THEN [os[k] EXCEPT !.ended_at = clock] ELSE os[k]]

\* Statement 3, outageAction = 'close': UPDATE ... WHERE ended_at IS NULL.
closeOutage(os, checkedAt) ==
  [k \in DOMAIN os |->
     IF os[k].ended_at = NULL THEN [os[k] EXCEPT !.ended_at = checkedAt] ELSE os[k]]

\* Statement 3 by outageAction ('update' rewrites last_error only, which the
\* rows here do not carry).
applyOutageAction(os, checkedAt, outageAction) ==
  CASE outageAction = "open" -> openOutage(os, checkedAt)
    [] outageAction = "close" -> closeOutage(os, checkedAt)
    [] OTHER -> os

\* --------------------------------------------------------- event hand-off
\* Mutant: a missing previous status is not read as 'unknown'.
eventType_noPrevSilent(prevStatus, next, notify, maintenanceSuppressed) ==
  IF notify = {} \/ maintenanceSuppressed \/ ~next.changed THEN "none"
  ELSE IF prevStatus \in {"up", "unknown"} /\ next.status = "down" THEN "monitor.down"
       ELSE IF prevStatus = "down" /\ next.status = "up" THEN "monitor.up"
       ELSE "none"

\* runDueMonitor after the batch: the event handed to dispatch, or "none".
\* notify is the tick's channel list (empty: notify = null).
eventType(prevStatus, next, notify, maintenanceSuppressed) ==
  IF notify = {} \/ maintenanceSuppressed \/ ~next.changed THEN "none"
  ELSE LET prevForEvent == IF prevStatus = "NULL" THEN "unknown" ELSE prevStatus
       IN IF prevForEvent \in {"up", "unknown"} /\ next.status = "down" THEN "monitor.down"
          ELSE IF prevForEvent = "down" /\ next.status = "up" THEN "monitor.up"
          ELSE "none"

\* `monitor:${row.id}:${eventSuffix}:${checkedAt}`
eventKey(id, type, checkedAt) ==
  <<"monitor", id, IF type = "monitor.down" THEN "down" ELSE "up", checkedAt>>

\* ------------------------------------------------------- public status
\* toMonitorStatus of public/status.ts: a value outside the domain is 'unknown'.
toMonitorStatusPublic(value) ==
  IF value \in {"up", "down", "maintenance", "paused", "unknown"} THEN value ELSE "unknown"

\* Mutant: the window is taken to start after starts_at.
listActiveMaintenanceMonitorIds_strictStart(at, monitorIds) ==
  { m \in monitorIds :
      \E mw \in maintenance_windows :
        /\ mw.starts_at < at /\ mw.ends_at > at
        /\ m \in mw.monitor_ids }

\* listActiveMaintenanceMonitorIds(db, at, monitorIds)
listActiveMaintenanceMonitorIds(at, monitorIds) ==
  { m \in monitorIds :
      \E mw \in maintenance_windows :
        /\ mw.starts_at <= at /\ mw.ends_at > at
        /\ m \in mw.monitor_ids }

\* computePublicStatusPayload(db, now): generated_at, the monitors' reported
\* status and staleness, the summary counts and overall_status.  The monitors
\* are the rows of monitor_state's domain (LEFT JOIN: status "NULL" and
\* last_checked_at NULL where no state row exists).
\* Mutant: unknown outranks down.
overall_status_unknownFirst(counts) ==
  IF counts["unknown"] > 0 THEN "unknown"
  ELSE IF counts["down"] > 0 THEN "down"
  ELSE IF counts["maintenance"] > 0 THEN "maintenance"
  ELSE IF counts["up"] > 0 THEN "up"
  ELSE IF counts["paused"] > 0 THEN "paused"
  ELSE "unknown"

\* computePublicStatusPayload: `const overall_status = counts.down > 0 ? ...`.
overall_status(counts) ==
  IF counts["down"] > 0 THEN "down"
  ELSE IF counts["unknown"] > 0 THEN "unknown"
  ELSE IF counts["maintenance"] > 0 THEN "maintenance"
  ELSE IF counts["up"] > 0 THEN "up"
  ELSE IF counts["paused"] > 0 THEN "paused"
  ELSE "unknown"

STATUS_ACTIVE_INCIDENT_LIMIT == 5

STATUS_ACTIVE_MAINTENANCE_LIMIT == 3

\* toIncidentImpact: a value outside the domain is 'minor'.
toIncidentImpact(value) ==
  IF value \in {"none", "minor", "major", "critical"} THEN value ELSE "minor"

\* The first `limit` elements of a sequence (SQL LIMIT).
Limit(seq, limit) == SubSeq(seq, 1, IF Len(seq) <= limit THEN Len(seq) ELSE limit)

RECURSIVE startedAtDesc(_)
\* ORDER BY started_at DESC, id DESC
startedAtDesc(rows) ==
  IF rows = {} THEN <<>>
  ELSE LET r == CHOOSE r \in rows : \A o \in rows \ {r} :
                  \/ r.started_at > o.started_at
                  \/ r.started_at = o.started_at /\ r.id > o.id
       IN <<r>> \o startedAtDesc(rows \ {r})

RECURSIVE startsAtAsc(_)
\* ORDER BY starts_at ASC, id ASC
startsAtAsc(rows) ==
  IF rows = {} THEN <<>>
  ELSE LET w == CHOOSE w \in rows : \A o \in rows \ {w} :
                  \/ w.starts_at < o.starts_at
                  \/ w.starts_at = o.starts_at /\ w.id < o.id
       IN <<w>> \o startsAtAsc(rows \ {w})

\* computePublicStatusPayload: the unresolved incidents, newest first, at most
\* STATUS_ACTIVE_INCIDENT_LIMIT of them.
activeIncidentRows ==
  Limit(startedAtDesc({it \in incidents : it.status # "resolved"}),
        STATUS_ACTIVE_INCIDENT_LIMIT)

\* computePublicStatusPayload: the windows active at now, earliest first, at
\* most STATUS_ACTIVE_MAINTENANCE_LIMIT of them.
activeWindowRows(now) ==
  Limit(startsAtAsc({w \in maintenance_windows : w.starts_at <= now /\ w.ends_at > now}),
        STATUS_ACTIVE_MAINTENANCE_LIMIT)

\* impactRank of the banner closure.
impactRank(impact) ==
  CASE impact = "critical" -> 3
    [] impact = "major" -> 2
    [] impact = "minor" -> 1
    [] OTHER -> 0

RECURSIVE reduceImpact(_, _)
\* incidents.map(toIncidentImpact).reduce((acc, it) =>
\*   impactRank(it) > impactRank(acc) ? it : acc, acc)
reduceImpact(rows, acc) ==
  IF rows = <<>> THEN acc
  ELSE LET it == toIncidentImpact(Head(rows).impact)
       IN reduceImpact(Tail(rows), IF impactRank(it) > impactRank(acc) THEN it ELSE acc)

\* Mutant: the impact of the newest incident alone.
maxImpact_newestOnly(rows) == toIncidentImpact(rows[1].impact)

\* `const maxImpact = ...` of the banner closure.
maxImpact(rows) == reduceImpact(rows, "none")

NoBanner ==
  [source |-> "monitors", status |-> "operational", incident |-> NULL,
   maintenance_window |-> NULL, down_ratio |-> NULL]

\* Mutant: major outage only above 30% down.
downRatioAtLeast30Percent_strict(down, total) == 10 * down > 3 * total

\* `downRatio >= 0.3` with downRatio = counts.down / total, total > 0: for
\* the double nearest to down/total and the double 0.3 this is
\* 10 * down >= 3 * total (3/10 rounds to the double 0.3 itself).
downRatioAtLeast30Percent(down, total) == 10 * down >= 3 * total

\* `const banner = (() => { ... })()` of computePublicStatusPayload.
banner(incidentRows, windowRows, counts, total) ==
  IF Len(incidentRows) > 0 THEN
    LET max == maxImpact(incidentRows)
    IN [NoBanner EXCEPT
          !.source = "incident",
          !.status = IF max = "critical" \/ max = "major" THEN "major_outage"
                     ELSE IF max = "minor" THEN "partial_outage"
                     ELSE "operational",
          !.incident = incidentRows[1].id]
  ELSE IF counts["down"] > 0 THEN
    [NoBanner EXCEPT
       !.status = IF downRatioAtLeast30Percent(counts["down"], total)
                    THEN "major_outage" ELSE "partial_outage",
       !.down_ratio = [down |-> counts["down"], total |-> total]]
  ELSE IF counts["unknown"] > 0 THEN
    [NoBanner EXCEPT !.status = "unknown"]
  ELSE IF Len(windowRows) > 0 \/ counts["maintenance"] > 0 THEN
    IF Len(windowRows) > 0
      THEN [NoBanner EXCEPT !.source = "maintenance", !.status = "maintenance",
                            !.maintenance_window = windowRows[1].id]
      ELSE [NoBanner EXCEPT !.status = "maintenance"]
  ELSE NoBanner

\* Mutant: a check exactly two intervals old is stale already.
isStaleRow_atTwoIntervals(id, r, isInMaintenance, stateStatus, now) ==
  IF isInMaintenance \/ stateStatus = "paused" \/ stateStatus = "maintenance"
    THEN FALSE
  ELSE IF r.last_checked_at = NULL THEN TRUE
  ELSE now - r.last_checked_at >= interval_sec[id] * 2

\* computePublicStatusPayload: `const isStale = ...` for the row r of
\* monitor id.
isStaleRow(id, r, isInMaintenance, stateStatus, now) ==
  IF isInMaintenance \/ stateStatus = "paused" \/ stateStatus = "maintenance"
    THEN FALSE
  ELSE IF r.last_checked_at = NULL THEN TRUE
  ELSE now - r.last_checked_at > interval_sec[id] * 2

\* computePublicStatusPayload(db, now): the monitors with their displayed
\* status, the summary counts, overall_status, the banner and the ids of the
\* incidents listed.
computePublicStatusPayload(now) ==
  LET rawIds == DOMAIN monitor_state
      maintenanceMonitorIds == listActiveMaintenanceMonitorIds(now, rawIds)
      isInMaintenance(m) == m \in maintenanceMonitorIds
      stateStatus(m) == toMonitorStatusPublic(monitor_state[m].status)
      isStale(m) == isStaleRow(m, monitor_state[m], isInMaintenance(m), stateStatus(m), now)
      status(m) == IF isInMaintenance(m) THEN "maintenance"
                   ELSE IF isStale(m) THEN "unknown" ELSE stateStatus(m)
      counts == [st \in {"up", "down", "maintenance", "paused", "unknown"} |->
                   Cardinality({m \in rawIds : status(m) = st})]
  IN [generated_at |-> now,
      valid |-> TRUE,
      monitors |-> [m \in rawIds |->
                      [status |-> status(m),
                       is_stale |-> isStale(m),
                       last_checked_at |-> monitor_state[m].last_checked_at,
                       last_latency_ms |-> IF isStale(m) THEN NULL
                                           ELSE monitor_state[m].last_latency_ms]],
      summary |-> counts,
      overall_status |-> overall_status(counts),
      banner |-> banner(activeIncidentRows, activeWindowRows(now), counts,
                        Cardinality(rawIds)),
      active_incidents |-> [k \in DOMAIN activeIncidentRows |-> activeIncidentRows[k].id]]

HEARTBEAT_LIMIT == 60

\* 7 * 24 * 60 * 60
HEARTBEAT_LOOKBACK_SEC == 604800

\* toCheckStatus: a value outside the domain is 'unknown'.
toCheckStatus(value) ==
  IF value \in {"up", "down", "maintenance", "unknown"} THEN value ELSE "unknown"

\* ORDER BY checked_at DESC over rowids a, b of `rows`.
checkedAtDesc(rows, tie, a, b) ==
  \/ rows[a].checked_at > rows[b].checked_at
  \/ /\ rows[a].checked_at = rows[b].checked_at
     /\ IF tie = "rowid ASC" THEN a < b ELSE a > b

\* Mutant: ROW_NUMBER() counts from the oldest row.
heartbeats_oldestFirst(rows, now, tie) ==
  LET rangeEnd == (now \div 60) * 60
      lookbackStart == rangeEnd - HEARTBEAT_LOOKBACK_SEC
      inRange == SelectSeq([i \in DOMAIN rows |-> i],
                           LAMBDA i : rows[i].checked_at >= lookbackStart)
      ranked == SortSeq(inRange, LAMBDA a, b : checkedAtDesc(rows, tie, b, a))
      n == IF Len(ranked) <= HEARTBEAT_LIMIT THEN Len(ranked) ELSE HEARTBEAT_LIMIT
      heartbeatRows == SubSeq(ranked, 1, n)
  IN [k \in 1..n |->
        [checked_at |-> rows[heartbeatRows[k]].checked_at,
         status |-> toCheckStatus(rows[heartbeatRows[k]].status)]]

\* computePublicStatusPayload, the heartbeat query for one monitor: the rows
\* of the lookback ranked by checked_at DESC, the first HEARTBEAT_LIMIT of
\* them, delivered ORDER BY checked_at DESC and then reversed.
heartbeats(rows, now, tie) ==
  LET rangeEnd == (now \div 60) * 60
      lookbackStart == rangeEnd - HEARTBEAT_LOOKBACK_SEC
      inRange == SelectSeq([i \in DOMAIN rows |-> i],
                           LAMBDA i : rows[i].checked_at >= lookbackStart)
      ranked == SortSeq(inRange, LAMBDA a, b : checkedAtDesc(rows, tie, a, b))
      n == IF Len(ranked) <= HEARTBEAT_LIMIT THEN Len(ranked) ELSE HEARTBEAT_LIMIT
      heartbeatRows == SubSeq(ranked, 1, n)
  IN [k \in 1..n |->
        [checked_at |-> rows[heartbeatRows[n + 1 - k]].checked_at,
         status |-> toCheckStatus(rows[heartbeatRows[n + 1 - k]].status)]]

\* Mutant: a failed upsert deletes the row.
writeStatusSnapshot_clobber(payload, writeOk) ==
  IF writeOk THEN payload ELSE NoSnapshot

\* writeStatusSnapshot(db, now, payload): the row after the upsert; a failed
\* statement leaves the row as it was.
writeStatusSnapshot(payload, writeOk) ==
  IF writeOk THEN payload ELSE public_snapshots

\* refreshPublicStatusSnapshot({db, now, compute}): the row after
\* toSnapshotPayload(compute()) has been written.
refreshPublicStatusSnapshot(now, writeOk) ==
  writeStatusSnapshot(computePublicStatusPayload(now), writeOk)

\* ------------------------------------------------------------------ actions
\* Time passes.
Advance ==
  \* The clock moves in these strides: 55 reaches a lease's expiry exactly,
  \* 60 the next cron minute.
  /\ \E d \in {55, 60} : clock + d <= MaxTime /\ clock' = clock + d
  /\ UNCHANGED <<locks, schedTables, config, inv, dispatchers, deliveryVars, rollupVars, lastInvocation, public_snapshots, apiVars>>

RemoveAt(seq, i) == SubSeq(seq, 1, i - 1) \o SubSeq(seq, i + 1, Len(seq))

\* Mutant: the tick goes on whatever acquireLease returned.
tickProceeds_always(acquired) == TRUE

\* `if (!acquired) return;`
tickProceeds(acquired) == acquired

\* runScheduledTick up to `if (!acquired) return`, lease granted.
TickAcquire ==
  /\ Len(inv) < MaxInv
  /\ tickProceeds(leaseGranted(LOCK_NAME, clock))
  /\ locks' = locksAfterAcquire(LOCK_NAME, clock, LOCK_LEASE_SECONDS)
  /\ inv' = Append(inv, [pc |-> "acquired", now |-> clock,
                         checkedAt |-> floorMinute(clock), notify |-> {},
                         jobs |-> [m \in DOMAIN monitor_state |-> NoJob]])
  /\ lastInvocation' = [handler |-> "tick", at |-> clock, acquired |-> TRUE]
  /\ UNCHANGED <<clock, schedTables, config, dispatchers, deliveryVars, rollupVars, public_snapshots, apiVars>>

\* runScheduledTick, lease not granted: `if (!acquired) return`.
TickDenied ==
  /\ ~tickProceeds(leaseGranted(LOCK_NAME, clock))
  /\ lastInvocation' = [handler |-> "tick", at |-> clock, acquired |-> FALSE]
  /\ UNCHANGED <<clock, locks, schedTables, config, inv, dispatchers, deliveryVars, rollupVars, public_snapshots, apiVars>>

\* runScheduledTick, listDueMonitors returned no row: the snapshot is
\* refreshed and the tick ends.
TickNoneDue(i, writeOk) ==
  /\ inv[i].pc = "acquired"
  /\ listDueMonitors(inv[i].checkedAt) = {}
  /\ public_snapshots' = refreshPublicStatusSnapshot(clock, writeOk)
  /\ inv' = RemoveAt(inv, i)
  /\ UNCHANGED <<clock, locks, schedTables, config, dispatchers, deliveryVars, rollupVars, lastInvocation, apiVars>>

\* runScheduledTick from listDueMonitors to the start of the probes: the rows
\* selected, the channel list and the maintenance-suppressed ids (evaluated
\* at the tick's `now`, not at checkedAt).  pLimit(CHECK_CONCURRENCY) admits
\* every job at once: there are no more than CHECK_CONCURRENCY monitors.
TickSelect(i) ==
  /\ inv[i].pc = "acquired"
  /\ LET due == listDueMonitors(inv[i].checkedAt)
         suppressedMonitorIds == listMaintenanceSuppressedMonitorIds(inv[i].now, due)
     IN /\ due # {}
        /\ inv' = [inv EXCEPT ![i].pc = "running",
                              ![i].notify = listActiveWebhookChannels,
                              ![i].jobs = [m \in DOMAIN monitor_state |->
                                 IF m \in due
                                   THEN [st |-> "selected", row |-> monitor_state[m],
                                         suppressed |-> m \in suppressedMonitorIds]
                                   ELSE NoJob]]
  /\ UNCHANGED <<clock, locks, schedTables, config, dispatchers, deliveryVars, rollupVars, lastInvocation, public_snapshots, apiVars>>

\* runDueMonitor: the probe has returned `outcome` (an exception of the probe
\* is caught and gives 'unknown'); the batch is applied and the event, if
\* any, is handed to dispatch.  (The probe reads and writes no shared state,
\* so its completion and the batch are one step.)  A batch that fails applies
\* none of its statements and its exception rejects the job.
RunDueMonitor(i, m, outcome, batchOk) ==
  /\ inv[i].pc = "running"
  /\ inv[i].jobs[m].st = "selected"
  /\ IF ~batchOk
       THEN /\ inv' = [inv EXCEPT ![i].jobs[m] = [NoJob EXCEPT !.st = "rejected"]]
            /\ UNCHANGED <<schedTables, dispatchers>>
       ELSE
     LET row == inv[i].jobs[m].row
         checkedAt == inv[i].checkedAt
         prevStatus == toMonitorStatus(row.status)
         next == computeNextState([row EXCEPT !.status = prevStatus], outcome, checkedAt)
         stateLastError == computeStateLastError(next.status, outcome,
                                                 outcomeError(outcome, checkedAt),
                                                 row.last_error)
         ev == eventType(prevStatus, next, inv[i].notify, inv[i].jobs[m].suppressed)
     IN /\ check_results' = [check_results EXCEPT ![m] = insertCheckResult(@, checkedAt, outcome)]
        /\ monitor_state' = [monitor_state EXCEPT ![m] =
                                upsertMonitorState(checkedAt, next, outcome, stateLastError)]
        /\ outages' = [outages EXCEPT ![m] = applyOutageAction(@, checkedAt, next.outageAction)]
        /\ dispatchers' =
             IF ev = "none" THEN dispatchers
             ELSE Append(dispatchers, [eventKey |-> eventKey(m, ev, checkedAt),
                                       todo |-> SortedSeq(inv[i].notify),
                                       phase |-> "insert"])
        /\ inv' = [inv EXCEPT ![i].jobs[m] = [NoJob EXCEPT !.st = "settled"]]
  /\ UNCHANGED <<clock, locks, config, deliveryVars, rollupVars, lastInvocation, public_snapshots, apiVars>>

\* Mutant: Promise.all, a rejected job rejects the tick.
allSettled_all(jobs) ==
  \A m \in DOMAIN jobs : jobs[m].st \notin {"selected", "rejected"}

\* `await Promise.allSettled(...)`: every job has fulfilled or rejected.
allSettled(jobs) ==
  \A m \in DOMAIN jobs : jobs[m].st # "selected"

\* runScheduledTick after Promise.allSettled: the snapshot is refreshed and
\* the tick ends.
TickFinish(i, writeOk) ==
  /\ inv[i].pc = "running"
  /\ allSettled(inv[i].jobs)
  /\ public_snapshots' = refreshPublicStatusSnapshot(clock, writeOk)
  /\ inv' = RemoveAt(inv, i)
  /\ UNCHANGED <<clock, locks, schedTables, config, dispatchers, deliveryVars, rollupVars, lastInvocation, apiVars>>

\* ------------------------------------------------------ webhook dispatch
\* Mutant: the unique index is missing, no insert conflicts.
uq_notification_event_channel_dropped(rows, event_key, channel_id) == FALSE

\* CREATE UNIQUE INDEX uq_notification_event_channel: an insert of
\* (event_key, channel_id) conflicts iff such a row is stored.
uq_notification_event_channel(rows, event_key, channel_id) ==
  \E r \in rows : r.event_key = event_key /\ r.channel_id = channel_id

dispatcherDone(d) ==
  [d EXCEPT !.todo = Tail(@), !.phase = IF Len(d.todo) = 1 THEN "done" ELSE "insert"]

\* dispatchWebhookToChannels, step 1 for the next channel: the placeholder
\* insert conflicts, the channel is skipped.
DeliverySkip(d) ==
  /\ dispatchers[d].phase = "insert"
  /\ uq_notification_event_channel(notification_deliveries,
                                   dispatchers[d].eventKey, Head(dispatchers[d].todo))
  /\ dispatchers' = [dispatchers EXCEPT ![d] = dispatcherDone(@)]
  /\ UNCHANGED <<clock, locks, schedTables, config, inv, deliveryVars, rollupVars, lastInvocation, public_snapshots, apiVars>>

\* Step 1, the placeholder row is inserted (inserted_by: which call did it).
DeliveryInsert(d) ==
  /\ dispatchers[d].phase = "insert"
  /\ ~uq_notification_event_channel(notification_deliveries,
                                    dispatchers[d].eventKey, Head(dispatchers[d].todo))
  /\ notification_deliveries' = notification_deliveries \cup
       {[event_key |-> dispatchers[d].eventKey, channel_id |-> Head(dispatchers[d].todo),
         status |-> "pending", inserted_by |-> d, finalized_by |-> 0]}
  /\ dispatchers' = [dispatchers EXCEPT ![d].phase = "send"]
  /\ UNCHANGED <<clock, locks, schedTables, config, inv, requests, rollupVars, lastInvocation, public_snapshots, apiVars>>

\* Steps 2-4: the request is sent and the delivery row of (event_key,
\* channel_id) finalized with the outcome.
DeliverySend(d, result) ==
  /\ dispatchers[d].phase = "send"
  /\ LET key == dispatchers[d].eventKey
         ch == Head(dispatchers[d].todo)
     IN /\ requests' = Append(requests, [event_key |-> key, channel_id |-> ch, sent_by |-> d])
        /\ notification_deliveries' =
             { IF r.event_key = key /\ r.channel_id = ch
                 THEN [r EXCEPT !.status = result, !.finalized_by = d]
                 ELSE r : r \in notification_deliveries }
  /\ dispatchers' = [dispatchers EXCEPT ![d] = dispatcherDone(@)]
  /\ UNCHANGED <<clock, locks, schedTables, config, inv, rollupVars, lastInvocation, public_snapshots, apiVars>>

Next ==
  \/ Advance
  \/ TickAcquire
  \/ TickDenied
  \/ \E i \in DOMAIN inv, writeOk \in BOOLEAN : TickNoneDue(i, writeOk)
  \/ \E i \in DOMAIN inv : TickSelect(i)
  \/ \E i \in DOMAIN inv, m \in Monitors, o \in CheckStatuses : RunDueMonitor(i, m, o, TRUE)
  \/ \E i \in DOMAIN inv, writeOk \in BOOLEAN : TickFinish(i, writeOk)
  \/ \E d \in DOMAIN dispatchers : DeliverySkip(d)
  \/ \E d \in DOMAIN dispatchers : DeliveryInsert(d)
  \/ \E d \in DOMAIN dispatchers, result \in {"success", "failed"} : DeliverySend(d, result)

Spec == Init /\ [][Next]_vars

\* ------------------------------------------------------ interval algebra
RECURSIVE insertByStart(_, _)
\* One step of the stable sort by (a, b) => a.start - b.start: `it` goes
\* after every element whose start is not greater.
insertByStart(sorted, it) ==
  IF sorted = <<>> THEN <<it>>
  ELSE IF sorted[Len(sorted)].start <= it.start THEN Append(sorted, it)
  ELSE Append(insertByStart(SubSeq(sorted, 1, Len(sorted) - 1), it), sorted[Len(sorted)])

RECURSIVE sortByStart(_)
\* [...intervals].sort((a, b) => a.start - b.start)
sortByStart(intervals) ==
  IF intervals = <<>> THEN <<>>
  ELSE insertByStart(sortByStart(SubSeq(intervals, 1, Len(intervals) - 1)),
                     intervals[Len(intervals)])

\* Mutant: an interval that only touches the previous one is not merged.
coalesces_strict(cur, prev) == cur.start < prev.end

\* `if (cur.start <= prev.end)`
coalesces(cur, prev) == cur.start <= prev.end

RECURSIVE sweep(_, _)
\* The loop of mergeIntervals over the sorted intervals not yet seen.
sweep(merged, rest) ==
  IF rest = <<>> THEN merged
  ELSE LET cur == Head(rest)
           prev == merged[Len(merged)]
       IN IF coalesces(cur, prev)
            THEN sweep([merged EXCEPT ![Len(merged)].end =
                          IF prev.end >= cur.end THEN prev.end ELSE cur.end],
                       Tail(rest))
            ELSE sweep(Append(merged, cur), Tail(rest))

\* mergeIntervals(intervals)
mergeIntervals(intervals) ==
  IF intervals = <<>> THEN <<>>
  ELSE LET sorted == sortByStart(intervals)
       IN sweep(<<Head(sorted)>>, Tail(sorted))

RECURSIVE sumIntervals(_)
\* sumIntervals(intervals)
sumIntervals(intervals) ==
  IF intervals = <<>> THEN 0
  ELSE (IF Head(intervals).end - Head(intervals).start > 0
          THEN Head(intervals).end - Head(intervals).start ELSE 0)
         + sumIntervals(Tail(intervals))

\* Mutant: the pointer of the list whose interval ends later is advanced.
advancesFirst_laterEnd(x, y) == x.end >= y.end

\* `if (x.end <= y.end) i++ else j++`
advancesFirst(x, y) == x.end <= y.end

RECURSIVE overlapLoop(_, _, _, _, _)
\* The while loop of overlapSeconds.
overlapLoop(a, b, i, j, acc) ==
  IF ~(i <= Len(a) /\ j <= Len(b)) THEN acc
  ELSE LET x == a[i]
           y == b[j]
           start == IF x.start >= y.start THEN x.start ELSE y.start
           end == IF x.end <= y.end THEN x.end ELSE y.end
           acc2 == IF end > start THEN acc + (end - start) ELSE acc
       IN IF advancesFirst(x, y) THEN overlapLoop(a, b, i + 1, j, acc2)
          ELSE overlapLoop(a, b, i, j + 1, acc2)

\* Mutant: unknown time inside an outage is counted a second time.
overlapSeconds_none(a, b) == 0

\* overlapSeconds(a, b)
overlapSeconds(a, b) == overlapLoop(a, b, 1, 1, 0)

\* `let lastCheck = null` of buildUnknownIntervals.
NoCheck == [checked_at |-> NULL, status |-> "none"]

\* pushMergedInterval(intervals, next)
pushMergedInterval(intervals, next) ==
  IF intervals # <<>> /\ next.start <= intervals[Len(intervals)].end
    THEN [intervals EXCEPT ![Len(intervals)].end =
            IF @ >= next.end THEN @ ELSE next.end]
    ELSE Append(intervals, next)

\* Mutant: a check is valid for one interval, not two.
processSegment_oneInterval(unknown, lastCheck, intervalSec, segStart, segEnd) ==
  LET addUnknown(list, from, to) ==
        IF to > from THEN pushMergedInterval(list, [start |-> from, end |-> to])
        ELSE list
  IN IF segEnd <= segStart THEN unknown
     ELSE IF lastCheck = NoCheck THEN addUnknown(unknown, segStart, segEnd)
     ELSE IF segStart >= lastCheck.checked_at + intervalSec
       THEN addUnknown(unknown, segStart, segEnd)
     ELSE LET validUntil == lastCheck.checked_at + intervalSec
              coveredEnd == IF segEnd <= validUntil THEN segEnd ELSE validUntil
              first == IF lastCheck.status = "unknown"
                         THEN addUnknown(unknown, segStart, coveredEnd)
                         ELSE unknown
          IN IF coveredEnd < segEnd THEN addUnknown(first, coveredEnd, segEnd)
             ELSE first

\* processSegment(segStart, segEnd) of buildUnknownIntervals, with its
\* addUnknown(from, to): ensureInterval gives null unless to > from.
processSegment(unknown, lastCheck, intervalSec, segStart, segEnd) ==
  LET addUnknown(list, from, to) ==
        IF to > from THEN pushMergedInterval(list, [start |-> from, end |-> to])
        ELSE list
  IN IF segEnd <= segStart THEN unknown
     ELSE IF lastCheck = NoCheck THEN addUnknown(unknown, segStart, segEnd)
     ELSE IF segStart >= lastCheck.checked_at + intervalSec * 2
       THEN addUnknown(unknown, segStart, segEnd)
     ELSE LET validUntil == lastCheck.checked_at + intervalSec * 2
              coveredEnd == IF segEnd <= validUntil THEN segEnd ELSE validUntil
              first == IF lastCheck.status = "unknown"
                         THEN addUnknown(unknown, segStart, coveredEnd)
                         ELSE unknown
          IN IF coveredEnd < segEnd THEN addUnknown(first, coveredEnd, segEnd)
             ELSE first

\* buildUnknownIntervals(rangeStart, rangeEnd, intervalSec, checks): the for
\* loop from check k on, then the closing processSegment(cursor, rangeEnd).
buildUnknownIntervals(rangeStart, rangeEnd, intervalSec, checks) ==
  LET RECURSIVE loop(_, _, _, _)
      loop(k, lastCheck, cursor, unknown) ==
        IF k > Len(checks) \/ (checks[k].checked_at >= rangeStart
                                /\ checks[k].checked_at >= rangeEnd)
          THEN processSegment(unknown, lastCheck, intervalSec, cursor, rangeEnd)
        ELSE IF checks[k].checked_at < rangeStart
          THEN loop(k + 1, checks[k], cursor, unknown)
        ELSE loop(k + 1, checks[k], checks[k].checked_at,
                  processSegment(unknown, lastCheck, intervalSec, cursor,
                                 checks[k].checked_at))
  IN IF rangeEnd <= rangeStart THEN <<>>
     ELSE IF intervalSec <= 0 THEN <<[start |-> rangeStart, end |-> rangeEnd]>>
     ELSE loop(1, NoCheck, rangeStart, <<>>)

\* ----------------------------------------------------------- daily rollup
ROLLUP_LOCK_LEASE_SECONDS == 600
DAY == 86400

utcDayStart(timestampSec) == (timestampSec \div DAY) * DAY

\* `${LOCK_PREFIX}${targetDayStart}`
rollupLockName(targetDayStart) == <<"analytics:daily-rollup:", targetDayStart>>

\* monitors.created_at.  The clock's origin is a UTC midnight: monitor 1 exists
\* since the midnight before, monitor 2 was created 90 s into that day and
\* monitor 3 at the origin; any other monitor is as old as monitor 1.
created_at ==
  [m \in Monitors \cup StatusMonitors \cup (1..MaxMonitors) |->
     CASE m = 2 -> 90 - DAY
       [] m = 3 -> 0
       [] OTHER -> 0 - DAY]

\* avg(values) of analytics/latency: round(mean), null for an empty sample.
avg(values) ==
  LET RECURSIVE sum(_)
      sum(vs) == IF vs = <<>> THEN 0 ELSE Head(vs) + sum(Tail(vs))
  IN IF values = <<>> THEN NULL
     ELSE (2 * sum(values) + Len(values)) \div (2 * Len(values))

\* percentileFromValues(values, p) of analytics/latency, p in percent: the
\* nearest-rank rule, null for an empty sample.  The value at rank r of the
\* sorted sample is the least value with at least r values not above it.
percentileFromValues(values, p) ==
  IF values = <<>> THEN NULL
  ELSE LET r == (p * Len(values) + 99) \div 100
           rank == IF r < 1 THEN 1 ELSE r
           notAbove(v) == Cardinality({k \in DOMAIN values : values[k] <= v})
           atRank == {values[k] : k \in {k \in DOMAIN values :
                                           notAbove(values[k]) >= rank}}
       IN CHOOSE v \in atRank : \A w \in atRank : v <= w

\* buildLatencyHistogram(values) of analytics/latency: |BUCKETS| + 1 counts,
\* value v counted in the first bucket whose boundary exceeds it, in the last
\* one when none does.  BUCKETS is an ordered fixed set the implementation
\* chooses; two boundaries stand for it.
buildLatencyHistogram(values) ==
  LET BUCKETS == <<100, 500>>
  IN [i \in 1..(Len(BUCKETS) + 1) |->
        Cardinality({k \in DOMAIN values :
           /\ (i <= Len(BUCKETS) => values[k] < BUCKETS[i])
           /\ (i > 1 => values[k] >= BUCKETS[i - 1])})]

\* Mutant: every check row read is counted, the ones before rangeStart too.
countsFrom_checksStart(rangeStart, checksStart) == checksStart

\* `if (r.checked_at < rangeStart) continue` of the counting loop: checks are
\* counted from rangeStart on although they are read from checksStart on.
countsFrom(rangeStart, checksStart) == rangeStart

\* The body of runDailyRollup's loop for monitor m: the row it binds, from the
\* monitor's outages and check_results (both stored in time order).
rollupRow(m, targetDayStart, outageRows, checkRows) ==
  LET rangeStart == IF targetDayStart >= created_at[m] THEN targetDayStart
                    ELSE created_at[m]
      rangeEnd == targetDayStart + DAY
      total_sec == IF rangeEnd - rangeStart > 0 THEN rangeEnd - rangeStart ELSE 0
      selectedOutages ==
        SelectSeq(outageRows, LAMBDA r :
          r.started_at < rangeEnd /\ (r.ended_at = NULL \/ r.ended_at > rangeStart))
      clamped ==
        [k \in DOMAIN selectedOutages |->
           LET r == selectedOutages[k]
               e == IF r.ended_at = NULL THEN rangeEnd ELSE r.ended_at
           IN [start |-> IF r.started_at >= rangeStart THEN r.started_at ELSE rangeStart,
               end |-> IF e <= rangeEnd THEN e ELSE rangeEnd]]
      downtimeIntervals ==
        mergeIntervals(SelectSeq(clamped, LAMBDA it : it.end > it.start))
      downtime_sec == sumIntervals(downtimeIntervals)
      checksStart == rangeStart - interval_sec[m] * 2
      selectedChecks ==
        SelectSeq(checkRows, LAMBDA r :
          r.checked_at >= checksStart /\ r.checked_at < rangeEnd)
      checks == [k \in DOMAIN selectedChecks |->
                   [checked_at |-> selectedChecks[k].checked_at,
                    status |-> toCheckStatus(selectedChecks[k].status)]]
      unknownIntervals ==
        buildUnknownIntervals(rangeStart, rangeEnd, interval_sec[m], checks)
      unknownRaw == sumIntervals(unknownIntervals)
                      - overlapSeconds(unknownIntervals, downtimeIntervals)
      unknown_sec == IF unknownRaw > 0 THEN unknownRaw ELSE 0
      unavailable_sec == IF total_sec <= downtime_sec + unknown_sec THEN total_sec
                         ELSE downtime_sec + unknown_sec
      uptime_sec == IF total_sec - unavailable_sec > 0
                      THEN total_sec - unavailable_sec ELSE 0
      counted == SelectSeq(selectedChecks, LAMBDA r :
                   r.checked_at >= countsFrom(rangeStart, checksStart))
      count(st) == Cardinality({k \in DOMAIN counted :
                                  toCheckStatus(counted[k].status) = st})
      upRows == SelectSeq(counted, LAMBDA r :
                  toCheckStatus(r.status) = "up" /\ r.latency_ms # NULL)
      latencies == [k \in DOMAIN upRows |-> upRows[k].latency_ms]
  IN [monitor_id |-> m,
      day_start_at |-> targetDayStart,
      total_sec |-> total_sec,
      downtime_sec |-> downtime_sec,
      unknown_sec |-> unknown_sec,
      uptime_sec |-> uptime_sec,
      checks_total |-> count("up") + count("down") + count("unknown")
                         + count("maintenance"),
      checks_up |-> count("up"),
      checks_down |-> count("down"),
      checks_unknown |-> count("unknown"),
      checks_maintenance |-> count("maintenance"),
      avg_latency_ms |-> avg(latencies),
      p50_latency_ms |-> percentileFromValues(latencies, 50),
      p95_latency_ms |-> percentileFromValues(latencies, 95),
      latency_histogram_json |-> buildLatencyHistogram(latencies)]

\* Mutant: on conflict the check counts are added to the stored ones.
upsertRollup_accumulate(table, row) ==
  IF \E old \in table : old.monitor_id = row.monitor_id
                          /\ old.day_start_at = row.day_start_at
    THEN {IF old.monitor_id = row.monitor_id /\ old.day_start_at = row.day_start_at
            THEN [row EXCEPT !.checks_total = @ + old.checks_total,
                             !.checks_up = @ + old.checks_up]
            ELSE old : old \in table}
    ELSE table \cup {row}

\* INSERT INTO monitor_daily_rollups ... ON CONFLICT(monitor_id, day_start_at)
\* DO UPDATE SET <every computed column> = excluded.<column>.  (created_at
\* and updated_at, the wall clock of the write, are not carried.)
upsertRollup(table, row) ==
  {old \in table : ~(old.monitor_id = row.monitor_id
                       /\ old.day_start_at = row.day_start_at)} \cup {row}

\* runDailyRollup up to `if (!acquired) return`, lease granted.
RollupAcquire ==
  /\ Len(rollups) < MaxInv
  /\ LET nowSec == clock
         targetDayStart == utcDayStart(nowSec) - DAY
     IN /\ leaseGranted(rollupLockName(targetDayStart), nowSec)
        /\ locks' = locksAfterAcquire(rollupLockName(targetDayStart), nowSec,
                                      ROLLUP_LOCK_LEASE_SECONDS)
        /\ rollups' = Append(rollups, [now |-> nowSec, targetDayStart |-> targetDayStart])
  /\ lastInvocation' = [handler |-> "rollup", at |-> clock, acquired |-> TRUE]
  /\ UNCHANGED <<clock, schedTables, config, inv, dispatchers, deliveryVars,
                 monitor_daily_rollups, public_snapshots, apiVars>>

\* runDailyRollup, lease not granted: `if (!acquired) return`.
RollupDenied ==
  /\ ~leaseGranted(rollupLockName(utcDayStart(clock) - DAY), clock)
  /\ lastInvocation' = [handler |-> "rollup", at |-> clock, acquired |-> FALSE]
  /\ UNCHANGED <<clock, locks, schedTables, config, inv, dispatchers, deliveryVars, rollupVars, public_snapshots, apiVars>>

\* runDailyRollup after the lease: the monitors created before the end of the
\* target day in id order, one row for each whose range in that day is not
\* empty, upserted on (monitor_id, day_start_at); no monitor, no write.
RollupRun(j) ==
  /\ LET targetDayStart == rollups[j].targetDayStart
         targetDayEnd == targetDayStart + DAY
         monitorRows == SortedSeq({m \in DOMAIN monitor_state :
                                  created_at[m] < targetDayEnd})
         rangeStart(m) == IF targetDayStart >= created_at[m] THEN targetDayStart
                          ELSE created_at[m]
         processed == SelectSeq(monitorRows, LAMBDA m : targetDayEnd > rangeStart(m))
         statements == [k \in DOMAIN processed |->
                          rollupRow(processed[k], targetDayStart,
                                    outages[processed[k]],
                                    check_results[processed[k]])]
         RECURSIVE batch(_, _)
         batch(table, rows) ==
           IF rows = <<>> THEN table
           ELSE batch(upsertRollup(table, Head(rows)), Tail(rows))
     IN monitor_daily_rollups' = batch(monitor_daily_rollups, statements)
  /\ rollups' = RemoveAt(rollups, j)
  /\ UNCHANGED <<clock, locks, schedTables, config, inv, dispatchers, deliveryVars,
                 lastInvocation, public_snapshots, apiVars>>

\* The two scheduled handlers with no webhook channel configured.
InitLease ==
  /\ Init
  /\ maintenance_windows = {}
  /\ channels = {}
  /\ monitors = {}

NextLease ==
  \/ Advance
  \/ TickAcquire
  \/ TickDenied
  \/ \E i \in DOMAIN inv, writeOk \in BOOLEAN : TickNoneDue(i, writeOk)
  \/ \E i \in DOMAIN inv : TickSelect(i)
  \/ \E i \in DOMAIN inv, m \in Monitors, o \in CheckStatuses : RunDueMonitor(i, m, o, TRUE)
  \/ \E i \in DOMAIN inv, writeOk \in BOOLEAN : TickFinish(i, writeOk)
  \/ RollupAcquire
  \/ RollupDenied
  \/ \E j \in DOMAIN rollups : RollupRun(j)

SpecLease == InitLease /\ [][NextLease]_vars

\* ------------------------------------------------------ GET /status
MAX_AGE_SECONDS == 60

\* Mutant: the age of the stored row is not looked at.
readStatusSnapshot_anyAge(now, readOk) ==
  IF ~readOk \/ public_snapshots = NoSnapshot \/ ~public_snapshots.valid THEN NoSnapshot
  ELSE [data |-> public_snapshots,
        age |-> IF now - public_snapshots.generated_at > 0
                  THEN now - public_snapshots.generated_at ELSE 0]

\* readStatusSnapshot(db, now): {data, age}, or null (NoSnapshot) when no row
\* is stored, the row is older than MAX_AGE_SECONDS, or the query or the
\* parse of body_json throws (readOk false, or a row that is not valid).
readStatusSnapshot(now, readOk) ==
  IF ~readOk \/ public_snapshots = NoSnapshot THEN NoSnapshot
  ELSE LET age == IF now - public_snapshots.generated_at > 0
                    THEN now - public_snapshots.generated_at ELSE 0
       IN IF age > MAX_AGE_SECONDS \/ ~public_snapshots.valid THEN NoSnapshot
          ELSE [data |-> public_snapshots, age |-> age]

\* Mutant: max-age is always 30.
applyStatusCacheHeaders_fixedMaxAge(ageSeconds) ==
  LET remaining == IF MAX_AGE_SECONDS - ageSeconds > 0 THEN MAX_AGE_SECONDS - ageSeconds ELSE 0
      maxAge == 30
      stale == IF remaining - maxAge > 0 THEN remaining - maxAge ELSE 0
  IN [max_age |-> maxAge, stale_while_revalidate |-> stale, stale_if_error |-> stale]

\* applyStatusCacheHeaders(res, ageSeconds): the Cache-Control directives.
applyStatusCacheHeaders(ageSeconds) ==
  LET remaining == IF MAX_AGE_SECONDS - ageSeconds > 0 THEN MAX_AGE_SECONDS - ageSeconds ELSE 0
      maxAge == IF 30 <= remaining THEN 30 ELSE remaining
      stale == IF remaining - maxAge > 0 THEN remaining - maxAge ELSE 0
  IN [max_age |-> maxAge, stale_while_revalidate |-> stale, stale_if_error |-> stale]

\* Background tasks GET /status may have pending at once.
MaxBackground == 1

\* Mutant: a snapshot that was served is never refreshed by the request.
closeToFreshnessBoundary_never(age) == FALSE

\* `if (snapshot.age >= 30)`: the snapshot served is close to the freshness
\* boundary.
closeToFreshnessBoundary(age) == age >= 30

\* GET /status: a snapshot that reads as fresh is served with its age, and a
\* background refresh is started once the age is 30 or more; on a miss the
\* payload is computed and served with age 0 and its write is started in the
\* background.
GetPublicStatus(readOk) ==
  /\ Len(background) < MaxBackground
  /\ LET now == clock
         snapshot == readStatusSnapshot(now, readOk)
     IN IF snapshot # NoSnapshot
          THEN /\ response' = [status |-> 200, served_at |-> now, data |-> snapshot.data,
                               live |-> FALSE,
                               cache_control |-> applyStatusCacheHeaders(snapshot.age)]
               /\ background' = IF closeToFreshnessBoundary(snapshot.age)
                                  THEN Append(background, [task |-> "refresh"])
                                  ELSE background
          ELSE LET payload == computePublicStatusPayload(now)
               IN /\ response' = [status |-> 200, served_at |-> now, data |-> payload,
                                  live |-> TRUE,
                                  cache_control |-> applyStatusCacheHeaders(0)]
                  /\ background' = Append(background, [task |-> "write", payload |-> payload])
  /\ UNCHANGED <<clock, locks, schedTables, config, inv, dispatchers, deliveryVars,
                 rollupVars, lastInvocation, public_snapshots, incidents, call>>

\* A background task of GET /status runs: the refresh computes the payload
\* at the time it runs and writes it, the miss path writes the payload that
\* was served; a write that fails is logged and nothing else happens.
BackgroundRun(k, writeOk) ==
  /\ public_snapshots' =
       IF background[k].task = "refresh"
         THEN writeStatusSnapshot(computePublicStatusPayload(clock), writeOk)
         ELSE writeStatusSnapshot(background[k].payload, writeOk)
  /\ background' = RemoveAt(background, k)
  /\ UNCHANGED <<clock, locks, schedTables, config, inv, dispatchers, deliveryVars,
                 rollupVars, lastInvocation, incidents, response, call>>

InitStatus ==
  /\ clock = 0
  /\ locks = {}
  \* The status page on its own: two monitors with any stored state (checked
  \* last at the origin or three minutes before it; paused and maintenance
  \* rows three minutes before it), and any of two windows.
  \* The active monitors: none, one or two.
  /\ \E ids \in {{}, {1}, StatusMonitors} : monitor_state \in [ids ->
        {NoState} \cup
        {[NoState EXCEPT !.status = st, !.last_checked_at = t, !.last_changed_at = t,
                         !.last_latency_ms = latencyMs(st)] :
           st \in {"up", "down", "unknown"}, t \in {0 - 180, 0}} \cup
        {[NoState EXCEPT !.status = st, !.last_checked_at = 0 - 180,
                         !.last_changed_at = 0 - 180, !.last_latency_ms = 20] :
           st \in {"paused", "maintenance"}}]
  /\ check_results = [m \in StatusMonitors |-> <<>>]
  /\ outages = [m \in StatusMonitors |-> <<>>]
  /\ maintenance_windows \in SUBSET
        {[id |-> 1, starts_at |-> 55, ends_at |-> 115, monitor_ids |-> {1}],
         [id |-> 2, starts_at |-> 60, ends_at |-> 120, monitor_ids |-> {1, 2}]}
  /\ channels = {}
  /\ monitors = {}
  /\ inv = <<>>
  /\ dispatchers = <<>>
  /\ notification_deliveries = {}
  /\ requests = <<>>
  /\ monitor_daily_rollups = {}
  /\ rollups = <<>>
  /\ lastInvocation = NoInvocation
  /\ public_snapshots \in {NoSnapshot, CorruptSnapshot}
  /\ incidents = {}
  /\ response = NoResponse
  /\ background = <<>>
  /\ call = NoCall

NextStatus ==
  \/ Advance
  \/ \E readOk \in BOOLEAN : GetPublicStatus(readOk)
  \/ \E k \in DOMAIN background, writeOk \in BOOLEAN : BackgroundRun(k, writeOk)

SpecStatus == InitStatus /\ [][NextStatus]_vars

\* Dispatch on its own: calls racing on a few events over the active channels.
MaxDispatchers == 3
InitNotify ==
  /\ clock = 0
  /\ locks = {}
  /\ monitor_state = [m \in Monitors |-> NoState]
  /\ check_results = [m \in Monitors |-> <<>>]
  /\ outages = [m \in Monitors |-> <<>>]
  /\ maintenance_windows = {}
  /\ channels \in {{1}, {1, 2}}
  /\ monitors = {}
  /\ inv = <<>>
  /\ \E n \in 1..MaxDispatchers :
       dispatchers \in [1..n -> {[eventKey |-> k, todo |-> SortedSeq(channels), phase |-> "insert"] :
                                   k \in {eventKey(1, "monitor.down", 0),
                                          eventKey(1, "monitor.up", 60)}}]
  /\ notification_deliveries = {}
  /\ requests = <<>>
  /\ monitor_daily_rollups = {}
  /\ rollups = <<>>
  /\ lastInvocation = NoInvocation
  /\ public_snapshots = NoSnapshot
  /\ incidents = {}
  /\ response = NoResponse
  /\ background = <<>>
  /\ call = NoCall

NextNotify ==
  \/ \E d \in DOMAIN dispatchers : DeliverySkip(d)
  \/ \E d \in DOMAIN dispatchers : DeliveryInsert(d)
  \/ \E d \in DOMAIN dispatchers, result \in {"success", "failed"} : DeliverySend(d, result)

SpecNotify == InitNotify /\ [][NextNotify]_vars

\* =================================================================== claims
ongoing(os) == {k \in DOMAIN os : os[k].ended_at = NULL}

inFlight(m) == {i \in DOMAIN inv : inv[i].jobs[m].st = "selected"}

\* C1: after any sequence of persistence batches, every monitor has at most
\* one outage row with ended_at = NULL.
C1_AtMostOneOngoingOutage ==
  \A m \in Monitors : Cardinality(ongoing(outages[m])) <= 1

\* C1 witness: two 'open' batches for the same monitor and tick time have
\* both been applied (two ticks selected it before either persisted), and
\* one ongoing outage stands.
C1_Witness ==
  \E m \in Monitors :
    /\ Len(check_results[m]) >= 2
    /\ check_results[m][1] = [checked_at |-> 0, status |-> "down", latency_ms |-> NULL]
    /\ check_results[m][2] = [checked_at |-> 0, status |-> "down", latency_ms |-> NULL]
    /\ Cardinality(ongoing(outages[m])) = 1

\* C4: no two invocations are ever in flight for the same monitor at once
\* (between selecting it as due and persisting its batch).
C4_SingleWriterPerMonitor ==
  \A m \in Monitors : Cardinality(inFlight(m)) <= 1

\* C8: every outage row with ended_at not null has started_at < ended_at.
C8_ClosedOutagePositive ==
  \A m \in Monitors : \A k \in DOMAIN outages[m] :
    outages[m][k].ended_at # NULL => outages[m][k].started_at < outages[m][k].ended_at

\* A step in which invocation i runs listDueMonitors and starts its probes.
SelectStep(i) ==
  /\ Len(inv') = Len(inv)
  /\ i \in DOMAIN inv
  /\ inv[i].pc = "acquired"
  /\ inv'[i].pc = "running"

\* C9: once a monitor's check for tick time T is persisted, no further tick
\* with the same T selects it, so a duplicate of (monitor, T, outcome) is
\* never processed after the first.
C9_NoReselectionForSameTick ==
  [][\A i \in DOMAIN inv : \A m \in Monitors :
        (SelectStep(i) /\ inv'[i].jobs[m].st = "selected")
          => \A k \in DOMAIN check_results[m] :
               check_results[m][k].checked_at # inv[i].checkedAt]_vars

\* C2: for any event_key and channel, whatever number of dispatchers race on
\* the event, at most one delivery row exists for (event_key, channel_id) and
\* at most one request is sent to the channel; the request is sent, and the
\* outcome recorded, by the dispatcher whose insert succeeded.
C2_AtMostOneDelivery ==
  /\ \A r1, r2 \in notification_deliveries :
       (r1.event_key = r2.event_key /\ r1.channel_id = r2.channel_id) => r1 = r2
  /\ \A k1, k2 \in DOMAIN requests :
       (requests[k1].event_key = requests[k2].event_key
          /\ requests[k1].channel_id = requests[k2].channel_id) => k1 = k2
  /\ \A k \in DOMAIN requests : \E r \in notification_deliveries :
       /\ r.event_key = requests[k].event_key /\ r.channel_id = requests[k].channel_id
       /\ r.inserted_by = requests[k].sent_by
  /\ \A r \in notification_deliveries :
       /\ r.status = "pending" <=> r.finalized_by = 0
       /\ r.finalized_by \in {0, r.inserted_by}

\* C2 witness: three dispatchers raced on one event, all are done, and one
\* row and one request per channel came of it.
C2_Witness ==
  /\ Len(dispatchers) = 3
  /\ \A d \in DOMAIN dispatchers :
       dispatchers[d].eventKey = dispatchers[1].eventKey /\ dispatchers[d].phase = "done"
  /\ channels = {1, 2}
  /\ Len(requests) = 2
  /\ \E k \in DOMAIN requests : requests[k].sent_by # 1

\* ------------------------------------------------- claims on the batch step
\* The step in which invocation i persists the batch of monitor m.
PersistStep(i, m) ==
  /\ Len(inv') = Len(inv)
  /\ i \in DOMAIN inv
  /\ inv[i].jobs[m].st = "selected"
  /\ inv'[i].jobs[m].st = "settled"

inMaintenanceAt(m, t) ==
  \E mw \in maintenance_windows :
    m \in mw.monitor_ids /\ mw.starts_at <= t /\ t < mw.ends_at

\* The event suffix the transition prev -> new calls for, "none" if none.
transitionEvent(prev, new) ==
  IF prev # new /\ prev \in {"up", "unknown", "NULL"} /\ new = "down" THEN "down"
  ELSE IF prev # new /\ prev = "down" /\ new = "up" THEN "up"
  ELSE "none"

\* What dispatch is handed in this step: nothing, or the event of that key.
handsOff(key) ==
  IF key = <<>> THEN dispatchers' = dispatchers
  ELSE /\ Len(dispatchers') = Len(dispatchers) + 1
       /\ SubSeq(dispatchers', 1, Len(dispatchers)) = dispatchers
       /\ dispatchers'[Len(dispatchers')].eventKey = key

\* C5 as stated: after persisting a check at tick time T, an event is handed
\* to dispatch exactly when the state changed, the monitor is not under
\* maintenance and the transition is {up, unknown, none} -> down
\* (monitor.down) or down -> up (monitor.up); the key is
\* monitor:<id>:down:<T> or monitor:<id>:up:<T>.
C5_EventExactlyOnTransition ==
  [][\A i \in DOMAIN inv : \A m \in Monitors :
       PersistStep(i, m) =>
         LET e == transitionEvent(inv[i].jobs[m].row.status, monitor_state'[m].status)
         IN handsOff(IF inMaintenanceAt(m, inv[i].now) \/ e = "none"
                       THEN <<>> ELSE <<"monitor", m, e, inv[i].checkedAt>>)]_vars

\* C5 amended: the same, provided the tick found at least one active webhook
\* channel; with no active channel nothing is handed off.
C5_EventOnTransitionWithChannels ==
  [][\A i \in DOMAIN inv : \A m \in Monitors :
       PersistStep(i, m) =>
         LET e == transitionEvent(inv[i].jobs[m].row.status, monitor_state'[m].status)
         IN handsOff(IF channels = {} \/ inMaintenanceAt(m, inv[i].now) \/ e = "none"
                       THEN <<>> ELSE <<"monitor", m, e, inv[i].checkedAt>>)]_vars

\* C5 witness: two checks were persisted and down at 60, then up at 120, were
\* handed to dispatch, in that order.
C5_Witness ==
  /\ Len(dispatchers) = 2
  /\ dispatchers[1].eventKey = <<"monitor", 1, "down", 60>>
  /\ dispatchers[2].eventKey = <<"monitor", 1, "up", 120>>
  /\ Len(check_results[1]) = 2

\* C6: a due monitor linked to a maintenance window active at the tick's now
\* is still probed and its check row, state upsert and outage action are
\* persisted (a transition to down leaves an outage open), but no delivery
\* row is created and nothing is dispatched for it.
C6_MaintenanceSuppressesOnlyNotification ==
  [][\A i \in DOMAIN inv : \A m \in Monitors :
       (PersistStep(i, m) /\ inMaintenanceAt(m, inv[i].now)) =>
         /\ Len(check_results'[m]) = Len(check_results[m]) + 1
         /\ check_results'[m][Len(check_results'[m])].checked_at = inv[i].checkedAt
         /\ monitor_state'[m].last_checked_at = inv[i].checkedAt
         /\ monitor_state'[m].status = check_results'[m][Len(check_results'[m])].status
         /\ transitionEvent(inv[i].jobs[m].row.status, monitor_state'[m].status) = "down"
              => /\ hasOngoingOutage(outages'[m])
                 /\ ~hasOngoingOutage(outages[m])
                      => outages'[m] = Append(outages[m], [started_at |-> inv[i].checkedAt,
                                                           ended_at |-> NULL])
         /\ dispatchers' = dispatchers
         /\ notification_deliveries' = notification_deliveries
         /\ requests' = requests]_vars

\* C6 witness: with an active channel, the monitor went down inside its
\* window: one check row, the outage open, nothing handed to dispatch.
C6_Witness ==
  /\ channels = {1}
  /\ inv = <<>>
  /\ Len(check_results[1]) = 1
  /\ check_results[1][1].status = "down"
  /\ inMaintenanceAt(1, 60)
  /\ outages[1] = <<[started_at |-> 60, ended_at |-> NULL]>>
  /\ dispatchers = <<>>
  /\ notification_deliveries = {}

\* C7: a transition to down at tick time T with no ongoing outage inserts the
\* outage (T, null); a transition from down to up at tick time T2 sets
\* ended_at = T2 on the ongoing outage and leaves no outage ongoing.
C7_OutageOpenedThenClosed ==
  [][\A i \in DOMAIN inv : \A m \in Monitors :
       PersistStep(i, m) =>
         LET e == transitionEvent(inv[i].jobs[m].row.status, monitor_state'[m].status)
         IN /\ (e = "down" /\ ~hasOngoingOutage(outages[m]))
                 => outages'[m] = Append(outages[m], [started_at |-> inv[i].checkedAt,
                                                      ended_at |-> NULL])
            /\ e = "up"
                 => /\ ~hasOngoingOutage(outages'[m])
                    /\ Len(outages'[m]) = Len(outages[m])
                    /\ \A k \in DOMAIN outages[m] :
                         outages'[m][k] = IF outages[m][k].ended_at = NULL
                                            THEN [outages[m][k] EXCEPT !.ended_at = inv[i].checkedAt]
                                            ELSE outages[m][k]]_vars

\* C7 witness: down at 60, then up at 120, left exactly Outage(60, 120).
C7_Witness ==
  /\ check_results[1] = <<[checked_at |-> 60, status |-> "down", latency_ms |-> NULL],
                          [checked_at |-> 120, status |-> "up", latency_ms |-> 20]>>
  /\ outages[1] = <<[started_at |-> 60, ended_at |-> 120]>>

\* ------------------------------------------------------- claims on the lease
leaseFree(name, now) == ~\E l \in locks : l.name = name /\ l.expires_at > now

\* C3: a lease (scheduler:tick for 55 s, analytics:daily-rollup:<day> for
\* 600 s) is granted only when no lock row of that name exists or its
\* expires_at <= now; an invocation that is not granted the lease returns
\* without selecting, probing or writing any check, state, outage or rollup
\* row; of two invocations that overlap within the lease duration only one
\* does any work.
C3_LeaseGatesWork ==
  [][/\ Len(inv') > Len(inv) =>
          /\ leaseFree(LOCK_NAME, clock)
          /\ \E l \in locks' : l.name = LOCK_NAME /\ l.expires_at = clock + 55
     /\ Len(rollups') > Len(rollups) =>
          /\ leaseFree(rollupLockName(0 - 86400), clock)
          /\ \E l \in locks' : l.name = rollupLockName(0 - 86400) /\ l.expires_at = clock + 600
     /\ (lastInvocation' # lastInvocation /\ ~lastInvocation'.acquired) =>
          /\ ~leaseFree(IF lastInvocation'.handler = "tick" THEN LOCK_NAME
                        ELSE rollupLockName(0 - 86400), clock)
          /\ UNCHANGED <<locks, monitor_state, check_results, outages, inv, dispatchers,
                         notification_deliveries, requests, monitor_daily_rollups, rollups,
                         public_snapshots>>
     /\ \A i, j \in DOMAIN inv' : i < j => inv'[j].now - inv'[i].now >= 55
     /\ \A i, j \in DOMAIN rollups' :
          (i < j /\ rollups'[i].targetDayStart = rollups'[j].targetDayStart)
            => rollups'[j].now - rollups'[i].now >= 600
     /\ <<monitor_state, check_results, outages>>' # <<monitor_state, check_results, outages>>
          => \E i \in DOMAIN inv : inv[i].pc = "running"
     /\ monitor_daily_rollups' # monitor_daily_rollups => rollups # <<>>]_vars

\* C3 witness: a rollup invocation has just been refused the lease another
\* one holds, while a tick that was granted its lease has persisted a check.
C3_Witness ==
  /\ lastInvocation = [handler |-> "rollup", at |-> 0, acquired |-> FALSE]
  /\ Len(rollups) = 1
  /\ Len(inv) = 1
  /\ check_results[1] # <<>>
  /\ monitor_daily_rollups = {}

\* ------------------------------------------------ claims on the status page
\* C10 for one payload: every monitor in a window active at the payload's
\* now is reported as maintenance, summary.down counts only monitors outside
\* any active window, and overall_status is down only if such a monitor is
\* reported down.
maintenanceNeverDown(payload) ==
  LET now == payload.generated_at
      ids == DOMAIN payload.monitors
      inWindow == {m \in ids : inMaintenanceAt(m, now)}
  IN /\ \A m \in inWindow : payload.monitors[m].status = "maintenance"
     /\ payload.summary["down"] =
          Cardinality({m \in ids \ inWindow : payload.monitors[m].status = "down"})
     /\ payload.summary["maintenance"] >= Cardinality(inWindow)
     /\ payload.overall_status = "down"
          => \E m \in ids \ inWindow : payload.monitors[m].status = "down"

\* C10: in every PublicStatusResponse, the one computed now and the one
\* stored as the snapshot, a monitor linked to a maintenance window active at
\* the payload's now has status maintenance, never down, whatever its stored
\* state; it is not counted in summary.down and cannot by itself make
\* overall_status down.
C10_MaintenanceNeverReportedDown ==
  /\ maintenanceNeverDown(computePublicStatusPayload(clock))
  /\ public_snapshots.valid => maintenanceNeverDown(public_snapshots)

\* C10 witness: the stored payload was computed while monitor 1, stored as
\* down, was in a window and monitor 2, not in one, was up: maintenance and
\* up are reported, no monitor is counted down, overall_status is maintenance.
C10_Witness ==
  /\ public_snapshots.valid
  /\ DOMAIN monitor_state = {1, 2}
  /\ public_snapshots.generated_at = 55
  /\ monitor_state[1].status = "down"
  /\ monitor_state[1].last_checked_at = 0
  /\ monitor_state[2].status = "up"
  /\ monitor_state[2].last_checked_at = 0
  /\ public_snapshots.monitors[1].status = "maintenance"
  /\ public_snapshots.monitors[2].status = "up"
  /\ public_snapshots.summary["down"] = 0
  /\ public_snapshots.overall_status = "maintenance"

Idle ==
  /\ clock = 0
  /\ locks = {}
  /\ monitor_state = [m \in Monitors |-> NoState]
  /\ check_results = [m \in Monitors |-> <<>>]
  /\ outages = [m \in Monitors |-> <<>>]
  /\ maintenance_windows = {}
  /\ channels = {}
  /\ monitors = {}
  /\ inv = <<>>
  /\ dispatchers = <<>>
  /\ notification_deliveries = {}
  /\ requests = <<>>
  /\ monitor_daily_rollups = {}
  /\ rollups = <<>>
  /\ lastInvocation = NoInvocation
  /\ incidents = {}
  /\ response = NoResponse
  /\ background = <<>>

allButCall == <<clock, locks, schedTables, config, inv, dispatchers,
                deliveryVars, rollupVars, lastInvocation, public_snapshots,
                incidents, response, background>>

pending(fn, args) == [fn |-> fn, args |-> args, done |-> FALSE, result |-> NULL]

returned(c, result) == [c EXCEPT !.done = TRUE, !.result = result]

\* applyStatusCacheHeaders on every age readStatusSnapshot can return
\* (0..MAX_AGE_SECONDS; the live path passes 0).
InitCache ==
  /\ Idle
  /\ public_snapshots = NoSnapshot
  /\ call \in {pending("applyStatusCacheHeaders", <<a>>) : a \in 0..MAX_AGE_SECONDS}

CallApplyStatusCacheHeaders ==
  /\ call.fn = "applyStatusCacheHeaders"
  /\ ~call.done
  /\ call' = returned(call, applyStatusCacheHeaders(call.args[1]))
  /\ UNCHANGED allButCall

NextCache == CallApplyStatusCacheHeaders

SpecCache == InitCache /\ [][NextCache]_vars

\* C12: for a served age a in 0..60, Cache-Control has
\* max-age = min(30, 60 - a) and stale-while-revalidate = stale-if-error =
\* (60 - a) - max-age; all three are >= 0 and max-age +
\* stale-while-revalidate = 60 - a <= 60.
C12_CacheControlBudget ==
  (call.fn = "applyStatusCacheHeaders" /\ call.done) =>
    LET a == call.args[1]
        h == call.result
    IN /\ h.max_age = (IF 30 <= 60 - a THEN 30 ELSE 60 - a)
       /\ h.stale_while_revalidate = (60 - a) - h.max_age
       /\ h.stale_if_error = (60 - a) - h.max_age
       /\ h.max_age >= 0
       /\ h.stale_while_revalidate >= 0
       /\ h.stale_if_error >= 0
       /\ h.max_age + h.stale_while_revalidate = 60 - a
       /\ h.max_age + h.stale_while_revalidate <= 60

\* C12 witness: a snapshot served at age 5 gets max-age=30,
\* stale-while-revalidate=25, stale-if-error=25.
C12_Witness ==
  /\ call.fn = "applyStatusCacheHeaders"
  /\ call.done
  /\ call.args[1] = 5
  /\ call.result = [max_age |-> 30, stale_while_revalidate |-> 25,
                    stale_if_error |-> 25]

\* ------------------------------------- the scheduler and the status page
\* One monitor, no channels, no windows: ticks refresh the snapshot while
\* GET /status requests read it and schedule their own writes.  Ticks follow
\* one another here (overlapping ticks are the subject of Spec).
InitSnapshot ==
  /\ Idle
  \* The row stored before the run: none, one that does not parse, or the
  \* payload computed 29 or 30 seconds ago.
  /\ public_snapshots \in {NoSnapshot, CorruptSnapshot,
                           computePublicStatusPayload(0 - 29),
                           computePublicStatusPayload(0 - 30)}
  /\ call = NoCall

NextSnapshot ==
  \/ Advance
  \/ inv = <<>> /\ TickAcquire
  \/ \E i \in DOMAIN inv, writeOk \in BOOLEAN : TickNoneDue(i, writeOk)
  \/ \E i \in DOMAIN inv : TickSelect(i)
  \/ \E i \in DOMAIN inv, m \in Monitors, o \in CheckStatuses : RunDueMonitor(i, m, o, TRUE)
  \/ \E i \in DOMAIN inv, writeOk \in BOOLEAN : TickFinish(i, writeOk)
  \/ \E readOk \in BOOLEAN : GetPublicStatus(readOk)
  \/ \E k \in DOMAIN background, writeOk \in BOOLEAN : BackgroundRun(k, writeOk)

SpecSnapshot == InitSnapshot /\ [][NextSnapshot]_vars

\* C13: a snapshot read that fails, or a stored row that does not parse, is a
\* miss: the request is answered 200 with the payload computed live.  A
\* snapshot write that fails (miss path, background refresh, scheduler
\* refresh) does not change the response already chosen, does not keep the
\* tick from completing, and leaves the stored row as it was.
C13_SnapshotErrorsDegrade ==
  [][/\ (GetPublicStatus(FALSE)
          \/ (~public_snapshots.valid /\ GetPublicStatus(TRUE)))
        => /\ response'.status = 200
           /\ response'.live
           /\ response'.data = computePublicStatusPayload(clock)
     /\ \A k \in DOMAIN background :
          BackgroundRun(k, FALSE)
            => /\ response' = response
               /\ public_snapshots' = public_snapshots
     /\ \A i \in DOMAIN inv :
          (TickNoneDue(i, FALSE) \/ TickFinish(i, FALSE))
            => /\ response' = response
               /\ public_snapshots' = public_snapshots
               /\ inv' = RemoveAt(inv, i)]_vars

\* C13 witness: the stored row does not parse; a request was nonetheless
\* answered 200 with the live payload; the write it scheduled has run and
\* failed, a tick has since run a check and completed with its refresh
\* failing too, and the row is still the one that was there.
C13_Witness ==
  /\ response.status = 200
  /\ response.live
  /\ public_snapshots = CorruptSnapshot
  /\ background = <<>>
  /\ inv = <<>>
  /\ lastInvocation.handler = "tick"
  /\ check_results[1] # <<>>

\* ---------------------------------------------------- heartbeats on its own
MaxRows == 62

\* n checks a minute apart from time 0, as the scheduler inserts them.
checkRows(n) ==
  [k \in 1..n |-> [checked_at |-> 60 * (k - 1),
                   status |-> IF k % 7 = 0 THEN "down" ELSE "up"]]

\* The same with one more row, written by an overlapping tick for a minute
\* that already has a row: the minute of the 60th most recent row.
checkRowsWithDuplicate(n) ==
  Append(checkRows(n),
         [checked_at |-> 60 * (IF n > HEARTBEAT_LIMIT THEN n - HEARTBEAT_LIMIT ELSE 0),
          status |-> "unknown"])

InitHeartbeats ==
  /\ Idle
  /\ public_snapshots = NoSnapshot
  /\ call \in {pending("heartbeats", <<rows, now>>) :
                 rows \in {checkRows(n) : n \in 0..MaxRows}
                            \cup {checkRowsWithDuplicate(n) : n \in 1..MaxRows},
                 \* Request times: within the first two hours (every row in the lookback),
                 \* and seven days later with lookbackStart = 0, 60 and 120.
                 now \in {3720, 604859, 604860, 604950}}

CallHeartbeats ==
  /\ call.fn = "heartbeats"
  /\ ~call.done
  \* SQL leaves the order of rows with equal checked_at open; the two orders a
  \* scan by rowid can produce.
  /\ \E tie \in {"rowid ASC", "rowid DESC"} :
       call' = returned(call, heartbeats(call.args[1], call.args[2], tie))
  /\ UNCHANGED allButCall

NextHeartbeats == CallHeartbeats

SpecHeartbeats == InitHeartbeats /\ [][NextHeartbeats]_vars

\* C14: the heartbeats of a monitor are in non-decreasing checked_at order,
\* at most 60, all with checked_at >= floor(now/60)*60 - 7*86400, and they
\* are the 60 most recent checks of that lookback (for every time t, as many
\* heartbeats are at or after t as there are checks of the lookback at or
\* after t, up to 60).
C14_HeartbeatsRecentAscending ==
  (call.fn = "heartbeats" /\ call.done) =>
    LET rows == call.args[1]
        now == call.args[2]
        h == call.result
        start == (now \div 60) * 60 - 7 * 86400
        from(t) == IF t >= start THEN t ELSE start
        atOrAfter(t) == Cardinality({i \in DOMAIN rows : rows[i].checked_at >= from(t)})
    IN /\ \A i, j \in DOMAIN h : i < j => h[i].checked_at <= h[j].checked_at
       /\ Len(h) <= 60
       /\ \A i \in DOMAIN h : h[i].checked_at >= start
       /\ \A r \in DOMAIN rows :
            Cardinality({i \in DOMAIN h : h[i].checked_at >= rows[r].checked_at})
              = (IF atOrAfter(rows[r].checked_at) <= 60
                   THEN atOrAfter(rows[r].checked_at) ELSE 60)
       /\ Len(h) = (IF atOrAfter(start) <= 60 THEN atOrAfter(start) ELSE 60)

\* C14 witness: 62 checks, all in the lookback: the oldest two are left out
\* and the 60 heartbeats run from 120 to 3660.
C14_Witness ==
  /\ call.fn = "heartbeats"
  /\ call.done
  /\ Len(call.args[1]) = 62
  /\ call.args[2] = 3720
  /\ Len(call.result) = 60
  /\ call.result[1].checked_at = 120
  /\ call.result[60].checked_at = 3660

\* ------------------------------------------- claims on the status payload
\* The payloads at hand: the one a request would compute now, the stored
\* snapshot and the payload last served.
payloadsAtHand ==
  {computePublicStatusPayload(clock)}
    \cup (IF public_snapshots.valid THEN {public_snapshots} ELSE {})
    \cup (IF response.status = 200 THEN {response.data} ELSE {})

staleAndStatusAsDocumented(p) ==
  \A m \in DOMAIN p.monitors :
    LET now == p.generated_at
        row == monitor_state[m]
        inWindow == inMaintenanceAt(m, now)
        expectStale ==
          /\ ~inWindow
          /\ row.status \notin {"paused", "maintenance"}
          /\ (row.last_checked_at = NULL \/ now - row.last_checked_at > 2 * interval_sec[m])
        expectStatus ==
          IF inWindow THEN "maintenance"
          ELSE IF expectStale THEN "unknown"
          ELSE IF row.status \in {"up", "down", "maintenance", "paused", "unknown"}
            THEN row.status
          ELSE "unknown"
    IN /\ p.monitors[m].is_stale = expectStale
       /\ p.monitors[m].status = expectStatus
       /\ p.monitors[m].is_stale => p.monitors[m].last_latency_ms = NULL

\* C15: for each monitor, is_stale is false if the monitor is in active
\* maintenance or its stored status is paused or maintenance, and otherwise
\* true iff last_checked_at is null or now - last_checked_at > 2 *
\* interval_sec; the displayed status is maintenance if in active
\* maintenance, else unknown if stale, else the stored status (unknown when
\* missing); last_latency_ms is null whenever is_stale.
C15_StaleAndDisplayedStatus ==
  \A p \in payloadsAtHand : staleAndStatusAsDocumented(p)

\* C15 witness: at 120 monitor 1, stored up with latency 20 and last checked
\* at 0 (exactly two intervals ago), is reported up, not stale, latency 20;
\* monitor 2, stored up and last checked at -180, is reported unknown, stale,
\* latency null.
C15_Witness ==
  /\ response.status = 200
  /\ DOMAIN monitor_state = {1, 2}
  /\ response.data.generated_at = 120
  /\ monitor_state[1].status = "up"
  /\ monitor_state[1].last_checked_at = 0
  /\ monitor_state[2].status = "up"
  /\ monitor_state[2].last_checked_at = 0 - 180
  /\ maintenance_windows = {}
  /\ response.data.monitors[1] = [status |-> "up", is_stale |-> FALSE,
                                  last_checked_at |-> 0, last_latency_ms |-> 20]
  /\ response.data.monitors[2] = [status |-> "unknown", is_stale |-> TRUE,
                                  last_checked_at |-> 0 - 180, last_latency_ms |-> NULL]

countsAndOverallAsDocumented(p) ==
  LET listed == DOMAIN p.monitors
      shown(st) == {m \in listed : p.monitors[m].status = st}
      some(st) == shown(st) # {}
  IN /\ \A st \in DOMAIN p.summary : p.summary[st] = Cardinality(shown(st))
     /\ p.summary["up"] + p.summary["down"] + p.summary["maintenance"]
          + p.summary["paused"] + p.summary["unknown"] = Cardinality(listed)
     /\ p.overall_status =
          (IF some("down") THEN "down"
           ELSE IF some("unknown") THEN "unknown"
           ELSE IF some("maintenance") THEN "maintenance"
           ELSE IF some("up") THEN "up"
           ELSE IF some("paused") THEN "paused"
           ELSE "unknown")

\* C16: overall_status is down if any listed monitor is down, else unknown
\* if any is unknown, else maintenance if any is in maintenance, else up if
\* any is up, else paused if any is paused, else (no monitors) unknown; the
\* summary counts add up to the number of listed monitors.
C16_OverallStatusPriority ==
  \A p \in payloadsAtHand : countsAndOverallAsDocumented(p)

\* C16 witness: one monitor down and one unknown (stale): overall_status is
\* down and the counts 1 + 1 add up to the two monitors listed.
C16_Witness ==
  /\ response.status = 200
  /\ DOMAIN response.data.monitors = {1, 2}
  /\ response.data.monitors[1].status = "unknown"
  /\ response.data.monitors[2].status = "down"
  /\ response.data.summary["down"] = 1
  /\ response.data.summary["unknown"] = 1
  /\ response.data.overall_status = "down"

\* ------------------------------------------------- the banner on its own
\* Bound: unresolved incidents in the table.
MaxIncidents == 6

\* total monitors: the first `down` stored down, the next `unknown` without
\* a state row, the next `maint` stored as maintenance, the rest up; every
\* stored row checked at the origin.
bannerMonitors(total, down, unknown, maint) ==
  [m \in 1..total |->
     IF m <= down
       THEN [NoState EXCEPT !.status = "down", !.last_checked_at = 0, !.last_changed_at = 0]
     ELSE IF m <= down + unknown THEN NoState
     ELSE IF m <= down + unknown + maint
       THEN [NoState EXCEPT !.status = "maintenance", !.last_checked_at = 0,
                            !.last_changed_at = 0]
     ELSE [NoState EXCEPT !.status = "up", !.last_checked_at = 0, !.last_changed_at = 0,
                          !.last_latency_ms = latencyMs("up")]]

\* n unresolved incidents, id 1 the newest, every third of impact minor and
\* the others none, except that incident `at` has impact `impact`; and one
\* resolved critical incident, newer than all of them.
incidentRows(n, at, impact) ==
  {[id |-> k,
    status |-> IF k % 2 = 0 THEN "monitoring" ELSE "investigating",
    impact |-> IF k = at THEN impact ELSE IF k % 3 = 0 THEN "minor" ELSE "none",
    started_at |-> 0 - 10 * k] : k \in 1..n}
  \cup {[id |-> n + 1, status |-> "resolved", impact |-> "critical", started_at |-> 0 - 5]}

InitBanner ==
  /\ clock = 0
  /\ locks = {}
  /\ check_results = [m \in Monitors |-> <<>>]
  /\ outages = [m \in Monitors |-> <<>>]
  /\ channels = {}
  /\ monitors = {}
  /\ inv = <<>>
  /\ dispatchers = <<>>
  /\ notification_deliveries = {}
  /\ requests = <<>>
  /\ monitor_daily_rollups = {}
  /\ rollups = <<>>
  /\ lastInvocation = NoInvocation
  /\ public_snapshots = NoSnapshot
  /\ response = NoResponse
  /\ background = <<>>
  /\ call = NoCall
  \* No window; one active window linked to no listed monitor; that window and
  \* one that started earlier and is linked to monitor 1.
  /\ maintenance_windows \in
        { {},
          {[id |-> 1, starts_at |-> 0 - 10, ends_at |-> 50, monitor_ids |-> {}]},
          {[id |-> 1, starts_at |-> 0 - 10, ends_at |-> 50, monitor_ids |-> {}],
           [id |-> 2, starts_at |-> 0 - 20, ends_at |-> 50, monitor_ids |-> {1}]} }
  /\ \/ /\ incidents \in {{}, incidentRows(0, 0, "none")}
        /\ \E total \in 0..MaxMonitors, down \in 0..MaxMonitors,
              unknown \in 0..1, maint \in 0..1 :
             /\ down + unknown + maint <= total
             /\ monitor_state = bannerMonitors(total, down, unknown, maint)
     \/ /\ \E n \in 1..MaxIncidents, at \in 1..MaxIncidents :
             /\ at <= n
             /\ incidents \in {incidentRows(n, at, impact) :
                                 impact \in {"none", "minor", "major", "critical"}}
        /\ \E total \in {0, 2}, down \in 0..1 :
             /\ down <= total
             /\ monitor_state = bannerMonitors(total, down, 0, 0)

NextBanner ==
  \/ \E readOk \in BOOLEAN : GetPublicStatus(readOk)
  \/ \E k \in DOMAIN background, writeOk \in BOOLEAN : BackgroundRun(k, writeOk)

SpecBanner == InitBanner /\ [][NextBanner]_vars

unresolvedIncidents == {it \in incidents : it.status # "resolved"}

bannerAsDocumented(p) ==
  LET b == p.banner
      down == p.summary["down"]
      total == Cardinality(DOMAIN p.monitors)
      activeWindows == {w \in maintenance_windows :
                          w.starts_at <= p.generated_at /\ p.generated_at < w.ends_at}
  IN IF unresolvedIncidents # {} THEN b.source = "incident"
     ELSE IF down > 0 THEN
       /\ b.source = "monitors"
       /\ b.status = (IF 10 * down >= 3 * total THEN "major_outage" ELSE "partial_outage")
       /\ b.down_ratio = [down |-> down, total |-> total]
     ELSE IF p.summary["unknown"] > 0 THEN
       /\ b.source = "monitors"
       /\ b.status = "unknown"
     ELSE IF activeWindows # {} \/ p.summary["maintenance"] > 0 THEN
       /\ b.status = "maintenance"
       /\ b.source = (IF activeWindows # {} THEN "maintenance" ELSE "monitors")
     ELSE /\ b.source = "monitors"
          /\ b.status = "operational"

\* C17: the banner is chosen by strict priority: unresolved incidents =>
\* source incident; else a displayed-down monitor => source monitors, status
\* major_outage if 10 * down >= 3 * total else partial_outage, down_ratio =
\* down/total; else an unknown monitor => monitors/unknown; else an active
\* window or a maintenance monitor => status maintenance, source maintenance
\* when a window is available; else monitors/operational.
C17_BannerPriority ==
  \A p \in payloadsAtHand : bannerAsDocumented(p)

\* C17 witness: no incidents, no window, 10 monitors of which 3 are down:
\* the banner served is monitors/major_outage with down_ratio 3/10.
C17_Witness ==
  /\ response.status = 200
  /\ incidents = {}
  /\ maintenance_windows = {}
  /\ Cardinality(DOMAIN response.data.monitors) = 10
  /\ response.data.summary["down"] = 3
  /\ response.data.banner.source = "monitors"
  /\ response.data.banner.status = "major_outage"
  /\ response.data.banner.down_ratio = [down |-> 3, total |-> 10]

bannerStatusOf(impacts) ==
  IF "critical" \in impacts \/ "major" \in impacts THEN "major_outage"
  ELSE IF "minor" \in impacts THEN "partial_outage"
  ELSE "operational"

\* The unresolved incident with the newest started_at (the higher id among
\* equals).
newestUnresolved ==
  CHOOSE it \in unresolvedIncidents : \A o \in unresolvedIncidents \ {it} :
    it.started_at > o.started_at \/ (it.started_at = o.started_at /\ it.id > o.id)

\* The unresolved incidents that fewer than 5 others precede in that order.
newestFiveUnresolved ==
  {it \in unresolvedIncidents :
     Cardinality({o \in unresolvedIncidents :
                    o.started_at > it.started_at
                      \/ (o.started_at = it.started_at /\ o.id > it.id)}) < 5}

\* C18 as stated: whenever unresolved incidents exist, the banner status is
\* the one of the maximum impact over all unresolved incidents, for any
\* number of them, and the embedded incident is the newest one.
C18_BannerMaxOverAllUnresolved ==
  \A p \in payloadsAtHand :
    unresolvedIncidents # {} =>
      /\ p.banner.status = bannerStatusOf({it.impact : it \in unresolvedIncidents})
      /\ p.banner.incident = newestUnresolved.id

\* C18 amended: whenever unresolved incidents exist, the banner status is the
\* one of the maximum impact over the 5 unresolved incidents with the newest
\* started_at (all of them if there are fewer), and the embedded incident is
\* the newest one.
C18_BannerMaxOverNewestFive ==
  \A p \in payloadsAtHand :
    unresolvedIncidents # {} =>
      /\ p.banner.source = "incident"
      /\ p.banner.status = bannerStatusOf({it.impact : it \in newestFiveUnresolved})
      /\ p.banner.incident = newestUnresolved.id

\* C18 witness: six unresolved incidents, the oldest critical, the five
\* newer ones of impact none or minor: the banner served is partial_outage
\* and embeds incident 1, the newest.
C18_Witness ==
  /\ response.status = 200
  /\ Cardinality(unresolvedIncidents) = 6
  /\ \E it \in unresolvedIncidents : it.id = 6 /\ it.impact = "critical"
  /\ response.data.banner.source = "incident"
  /\ response.data.banner.status = "partial_outage"
  /\ response.data.banner.incident = 1

\* ------------------------------------------- interval algebra on its own
\* Bounds: interval ends lie in 0..MaxCoord, an input list has at most
\* MaxIntervals intervals.
MaxCoord == 4
MaxIntervals == 3

\* The intervals the callers build: integer ends, end > start (each caller
\* drops the others before it merges).
IntervalLists ==
  UNION {[1..n -> {it \in [start : 0..MaxCoord, end : 0..MaxCoord] : it.end > it.start}] :
           n \in 0..MaxIntervals}

\* The merged, sorted lists: what mergeIntervals returns.
MergedLists == {mergeIntervals(X) : X \in IntervalLists}

\* Check lists in chronological order, up to MaxIntervals checks between one
\* second before the origin and MaxCoord; a probe that was answered counts
\* as 'up' here, whatever the answer.
CheckLists ==
  UNION {{c \in [1..n -> [checked_at : (0 - 1)..MaxCoord, status : {"up", "unknown"}]] :
            \A k \in 1..(n - 1) : c[k].checked_at <= c[k + 1].checked_at} :
           n \in 0..MaxIntervals}

\* One call of a function of analytics/uptime: merging any list, the overlap
\* of two merged lists, or the unknown time of a range that starts at 0 or 1
\* (so that checks lie before it) for an interval of 1 or 2 seconds, or of a
\* day with checks at 0 and 240 for an interval of a minute.
InitIntervals ==
  /\ Idle
  /\ public_snapshots = NoSnapshot
  /\ \/ call \in {pending("mergeIntervals", <<X>>) : X \in IntervalLists}
     \/ call \in {pending("overlapSeconds", <<A, B>>) : A \in MergedLists, B \in MergedLists}
     \/ call \in {pending("buildUnknownIntervals", <<rangeStart, rangeEnd, intervalSec, checks>>) :
                    rangeStart \in {0, 1}, rangeEnd \in 1..MaxCoord,
                    intervalSec \in {1, 2}, checks \in CheckLists}
     \/ call \in {pending("buildUnknownIntervals", <<0, DAY, 60, checks>>) :
                    checks \in {<<>>,
                                <<[checked_at |-> 0, status |-> "up"],
                                  [checked_at |-> 240, status |-> "up"]>>}}

CallMergeIntervals ==
  /\ call.fn = "mergeIntervals"
  /\ ~call.done
  /\ call' = returned(call, mergeIntervals(call.args[1]))
  /\ UNCHANGED allButCall

CallOverlapSeconds ==
  /\ call.fn = "overlapSeconds"
  /\ ~call.done
  /\ call' = returned(call, overlapSeconds(call.args[1], call.args[2]))
  /\ UNCHANGED allButCall

CallBuildUnknownIntervals ==
  /\ call.fn = "buildUnknownIntervals"
  /\ ~call.done
  /\ call' = returned(call, buildUnknownIntervals(call.args[1], call.args[2],
                                                  call.args[3], call.args[4]))
  /\ UNCHANGED allButCall

NextIntervals ==
  \/ CallMergeIntervals
  \/ CallOverlapSeconds
  \/ CallBuildUnknownIntervals

SpecIntervals == InitIntervals /\ [][NextIntervals]_vars

covered(list) ==
  {c \in 0..(MaxCoord - 1) : \E k \in DOMAIN list : list[k].start <= c /\ c < list[k].end}

\* C20: for merged, sorted A and B, overlapSeconds(A, B) =
\* overlapSeconds(B, A), it is the length of the intersection of the unions
\* of A and B, and it is at most min(sumIntervals(A), sumIntervals(B)).
C20_OverlapSymmetricBounded ==
  (call.fn = "overlapSeconds" /\ call.done) =>
    LET A == call.args[1]
        B == call.args[2]
    IN /\ call.result = overlapSeconds(B, A)
       /\ call.result = Cardinality(covered(A) \cap covered(B))
       /\ call.result <= sumIntervals(A)
       /\ call.result <= sumIntervals(B)

\* C20 witness: A = [0,2), [3,4) and B = [1,4) overlap in [1,2) and [3,4):
\* 2 seconds.
C20_Witness ==
  /\ call.fn = "overlapSeconds"
  /\ call.done
  /\ call.args[1] = <<[start |-> 0, end |-> 2], [start |-> 3, end |-> 4]>>
  /\ call.args[2] = <<[start |-> 1, end |-> 4]>>
  /\ call.result = 2

\* C34: for a chronologically ordered check list and intervalSec > 0,
\* buildUnknownIntervals(rangeStart, rangeEnd, intervalSec, checks) is a
\* sorted list of pairwise disjoint intervals of positive width inside
\* [rangeStart, rangeEnd) whose union is exactly the instants t of the range
\* for which the latest check with checked_at <= t is absent, has status
\* unknown, or has t >= checked_at + 2 * intervalSec.
C34_UnknownIsUncoveredTime ==
  (call.fn = "buildUnknownIntervals" /\ call.done) =>
    LET rangeStart == call.args[1]
        rangeEnd == call.args[2]
        intervalSec == call.args[3]
        checks == call.args[4]
        U == call.result
        seen(t) == {k \in DOMAIN checks : checks[k].checked_at <= t}
        latest(t) == checks[CHOOSE k \in seen(t) : \A j \in seen(t) : j <= k]
        unknownAt(t) ==
          \/ seen(t) = {}
          \/ latest(t).status = "unknown"
          \/ t >= latest(t).checked_at + 2 * intervalSec
    IN /\ \A i \in DOMAIN U :
            /\ U[i].start < U[i].end
            /\ rangeStart <= U[i].start
            /\ U[i].end <= rangeEnd
       /\ \A i, j \in DOMAIN U : i < j => U[i].end <= U[j].start
       /\ \A t \in rangeStart..(rangeEnd - 1) :
            unknownAt(t) <=> \E i \in DOMAIN U : U[i].start <= t /\ t < U[i].end

\* C34 witness: with intervalSec = 60 and up checks at 0 and 240 on
\* [0, 86400), [0, 120) is known, [120, 240) is unknown, and so is the day
\* from 360 on.
C34_Witness ==
  /\ call.fn = "buildUnknownIntervals"
  /\ call.done
  /\ call.args = <<0, DAY, 60, <<[checked_at |-> 0, status |-> "up"],
                                 [checked_at |-> 240, status |-> "up"]>> >>
  /\ call.result = <<[start |-> 120, end |-> 240], [start |-> 360, end |-> DAY]>>

\* ------------------------------------------------ the daily rollup's rows
\* Bounds: the rollup is scheduled up to MaxRollupRuns lease terms after the
\* clock's origin; the monitor under study has up to MaxRollupChecks check rows.
MaxRollupRuns == 2
MaxRollupChecks == 2

\* The tables at the origin: three monitors, one of the first two with check
\* rows and outages of the day before.  The check rows lie within the two
\* intervals read ahead of the day, inside the day before and after monitor
\* 2's creation and shortly before the day's end, each with a status and a
\* latency the scheduler stores.  The outages: none, one that ended before
\* the day, one that began before the day, one inside it, an ongoing one,
\* and a closed one followed by an ongoing one.
InitRollup ==
  LET times == <<0 - DAY - 60, 30 - DAY, 100 - DAY, 0 - 30>>
      kinds == {[status |-> "up", latency_ms |-> 20],
                [status |-> "up", latency_ms |-> 250],
                [status |-> "down", latency_ms |-> NULL],
                [status |-> "unknown", latency_ms |-> NULL]}
      rollupChecks ==
        UNION {{LET at == SortedSeq(T)
                IN [k \in 1..Len(at) |->
                      [checked_at |-> times[at[k]],
                       status |-> f[at[k]].status,
                       latency_ms |-> f[at[k]].latency_ms]] :
                f \in [T -> kinds]} :
               T \in {T \in SUBSET DOMAIN times : Cardinality(T) <= MaxRollupChecks}}
      rollupOutages ==
        {<<>>,
         <<[started_at |-> 0 - DAY - 300, ended_at |-> 0 - DAY - 200]>>,
         <<[started_at |-> 0 - DAY - 100, ended_at |-> 50 - DAY]>>,
         <<[started_at |-> 20 - DAY, ended_at |-> 200 - DAY]>>,
         <<[started_at |-> 150 - DAY, ended_at |-> NULL]>>,
         <<[started_at |-> 20 - DAY, ended_at |-> 60 - DAY],
           [started_at |-> 120 - DAY, ended_at |-> NULL]>>}
  IN
  /\ clock = 0
  /\ locks = {}
  /\ monitor_state = [m \in {1, 2, 3} |-> NoState]
  /\ \E m \in {1, 2}, rows \in rollupChecks, os \in rollupOutages :
       /\ check_results = [x \in {1, 2, 3} |-> IF x = m THEN rows ELSE <<>>]
       /\ outages = [x \in {1, 2, 3} |-> IF x = m THEN os ELSE <<>>]
  /\ maintenance_windows = {}
  /\ channels = {}
  /\ monitors = {}
  /\ inv = <<>>
  /\ dispatchers = <<>>
  /\ notification_deliveries = {}
  /\ requests = <<>>
  /\ monitor_daily_rollups = {}
  /\ rollups = <<>>
  /\ lastInvocation = NoInvocation
  /\ public_snapshots = NoSnapshot
  /\ incidents = {}
  /\ response = NoResponse
  /\ background = <<>>
  /\ call = NoCall

\* Time passes by one lease term of the rollup.
AdvanceLeaseTerm ==
  /\ clock + ROLLUP_LOCK_LEASE_SECONDS <= MaxRollupRuns * ROLLUP_LOCK_LEASE_SECONDS
  /\ clock' = clock + ROLLUP_LOCK_LEASE_SECONDS
  /\ UNCHANGED <<locks, schedTables, config, inv, dispatchers, deliveryVars,
                 rollupVars, lastInvocation, public_snapshots, apiVars>>

NextRollup ==
  \/ AdvanceLeaseTerm
  \/ RollupAcquire
  \/ RollupDenied
  \/ \E j \in 1..MaxInv : j <= Len(rollups) /\ RollupRun(j)

SpecRollup == InitRollup /\ [][NextRollup]_vars

\* The check rows of monitor m the rollup of the day before the origin counts.
countedChecks(m, st) ==
  Cardinality({k \in DOMAIN check_results[m] :
     /\ check_results[m][k].checked_at >= (IF created_at[m] > 0 - DAY
                                             THEN created_at[m] ELSE 0 - DAY)
     /\ check_results[m][k].checked_at < 0
     /\ check_results[m][k].status = st})

\* C21: in every rollup row written by the daily rollup, total_sec =
\* day_end - max(day_start, monitor.created_at) > 0, uptime_sec + downtime_sec
\* + unknown_sec <= total_sec, each of the three is >= 0, and checks_up +
\* checks_down + checks_unknown + checks_maintenance = checks_total, where
\* only checks with checked_at >= rangeStart are counted although checks from
\* rangeStart - 2 * interval_sec are read.
C21_RollupRowBounds ==
  \A r \in monitor_daily_rollups :
    LET m == r.monitor_id
        rangeStart == IF r.day_start_at >= created_at[m] THEN r.day_start_at
                      ELSE created_at[m]
    IN /\ r.total_sec = r.day_start_at + DAY - rangeStart
       /\ r.total_sec > 0
       /\ r.uptime_sec + r.downtime_sec + r.unknown_sec <= r.total_sec
       /\ r.uptime_sec >= 0 /\ r.downtime_sec >= 0 /\ r.unknown_sec >= 0
       /\ r.checks_up + r.checks_down + r.checks_unknown + r.checks_maintenance
            = r.checks_total
       /\ r.checks_up = countedChecks(m, "up")
       /\ r.checks_down = countedChecks(m, "down")
       /\ r.checks_unknown = countedChecks(m, "unknown")
       /\ r.checks_maintenance = countedChecks(m, "maintenance")

\* C21 witness: monitor 2's row, the monitor created 90 s into the day, was
\* written with a check read before its creation and not counted, one check
\* counted, and downtime and unknown time both positive.
C21_Witness ==
  \E r \in monitor_daily_rollups :
    /\ r.monitor_id = 2
    /\ r.total_sec = DAY - 90
    /\ Len(check_results[2]) = 2
    /\ check_results[2][1].checked_at = 30 - DAY
    /\ r.checks_total = 1
    /\ r.downtime_sec > 0
    /\ r.unknown_sec > 0
    /\ r.uptime_sec > 0

\* C22: running the daily rollup again for the same UTC day over unchanged
\* monitors, checks and outages leaves exactly one row per (monitor_id,
\* day_start_at), with the computed fields of the first run.
C22_RollupRerunIdempotent ==
  [][\A j \in 1..MaxInv :
       (j <= Len(rollups) /\ RollupRun(j))
         => /\ \A r1, r2 \in monitor_daily_rollups' :
                 (r1.monitor_id = r2.monitor_id /\ r1.day_start_at = r2.day_start_at)
                   => r1 = r2
            /\ (\E r \in monitor_daily_rollups :
                  r.day_start_at = rollups[j].targetDayStart)
                 => monitor_daily_rollups' = monitor_daily_rollups]_vars

\* C22 witness: the lease was taken a second time, one term after the origin,
\* both runs have finished, and the day's rows, one of them with counted
\* checks and latencies, are in the table.
C22_Witness ==
  /\ rollups = <<>>
  /\ \E l \in locks : l.expires_at = 2 * ROLLUP_LOCK_LEASE_SECONDS
  /\ Cardinality(monitor_daily_rollups) = 2
  /\ \E r \in monitor_daily_rollups :
       r.checks_total = 2 /\ r.checks_up = 2 /\ r.avg_latency_ms = 135
         /\ r.p50_latency_ms = 20 /\ r.p95_latency_ms = 250
         /\ r.latency_histogram_json = <<1, 1, 0>>

\* ------------------------------------------------- ticks over two monitors
\* Monitor 1 has never been checked; monitor 2 has never been checked, or was
\* paused two minutes before the origin, with or without an outage that was
\* ongoing then; the operator may pause monitor 2 at any time.  No webhook
\* channel, no maintenance window; one tick at a time.
InitFleet ==
  LET pausedRow == [NoState EXCEPT !.status = "paused",
                                   !.last_checked_at = 0 - 120,
                                   !.last_changed_at = 0 - 120]
      downRow == [checked_at |-> 0 - 180, status |-> "down", latency_ms |-> NULL]
  IN
  /\ clock = 0
  /\ locks = {}
  /\ \E second \in {<<NoState, <<>>, <<>>>>,
                    <<pausedRow, <<>>, <<>>>>,
                    <<pausedRow, <<downRow>>,
                      <<[started_at |-> 0 - 180, ended_at |-> NULL]>>>>} :
       /\ monitor_state = [m \in {1, 2} |-> IF m = 1 THEN NoState ELSE second[1]]
       /\ check_results = [m \in {1, 2} |-> IF m = 1 THEN <<>> ELSE second[2]]
       /\ outages = [m \in {1, 2} |-> IF m = 1 THEN <<>> ELSE second[3]]
  /\ maintenance_windows = {}
  /\ channels = {}
  /\ monitors = {}
  /\ inv = <<>>
  /\ dispatchers = <<>>
  /\ notification_deliveries = {}
  /\ requests = <<>>
  /\ monitor_daily_rollups = {}
  /\ rollups = <<>>
  /\ lastInvocation = NoInvocation
  /\ public_snapshots = NoSnapshot
  /\ incidents = {}
  /\ response = NoResponse
  /\ background = <<>>
  /\ call = NoCall

\* POST /admin/monitors/{id}/pause: the monitor's state is set to paused (the
\* row is created when the monitor has none); an ongoing outage is not closed.
PauseMonitor(m) ==
  /\ monitor_state[m].status # "paused"
  /\ monitor_state' = [monitor_state EXCEPT ![m].status = "paused"]
  /\ UNCHANGED <<clock, locks, check_results, outages, config, inv, dispatchers,
                 deliveryVars, rollupVars, lastInvocation, public_snapshots, apiVars>>

NextFleet ==
  \/ Advance
  \/ PauseMonitor(2)
  \/ inv = <<>> /\ TickAcquire
  \/ \E i \in DOMAIN inv, writeOk \in BOOLEAN : TickNoneDue(i, writeOk)
  \/ \E i \in DOMAIN inv : TickSelect(i)
  \/ \E i \in DOMAIN inv, m \in DOMAIN monitor_state, o \in CheckStatuses,
        batchOk \in BOOLEAN : RunDueMonitor(i, m, o, batchOk)
  \/ \E i \in DOMAIN inv, writeOk \in BOOLEAN : TickFinish(i, writeOk)

SpecFleet == InitFleet /\ [][NextFleet]_vars

\* C23: a monitor whose stored status is paused is never selected or probed
\* by a tick, and while it is paused no check row, state change or outage
\* change is produced for it: an outage that was ongoing stays ongoing.
C23_PausedMonitorUntouched ==
  [][\A m \in DOMAIN monitor_state :
       monitor_state[m].status = "paused"
         => /\ \A i \in DOMAIN inv :
                 (Len(inv') = Len(inv) /\ inv[i].jobs[m].st # "selected")
                   => inv'[i].jobs[m].st # "selected"
            /\ check_results'[m] = check_results[m]
            /\ monitor_state'[m] = monitor_state[m]
            /\ outages'[m] = outages[m]]_vars

\* C24: within one tick, a failing persistence batch of one due monitor (a
\* probe exception is an 'unknown' outcome) applies none of its statements
\* and leaves the other jobs of the tick as they are, to be probed and
\* persisted; once every job has settled the tick finishes, and finishing
\* it refreshes the snapshot.
C24_FailureIsolatedPerMonitor ==
  [][\A i \in DOMAIN inv :
       /\ \A m \in DOMAIN monitor_state :
            (inv[i].pc = "running" /\ inv[i].jobs[m].st = "selected"
               /\ i \in DOMAIN inv' /\ inv'[i].jobs[m].st = "rejected")
              => /\ check_results' = check_results
                 /\ monitor_state' = monitor_state
                 /\ outages' = outages
                 /\ \A x \in DOMAIN monitor_state \ {m} :
                      inv'[i].jobs[x] = inv[i].jobs[x]
       /\ (inv[i].pc = "running"
             /\ \A m \in DOMAIN monitor_state : inv[i].jobs[m].st # "selected")
            => /\ ENABLED TickFinish(i, TRUE)
               /\ \A writeOk \in BOOLEAN :
                    TickFinish(i, writeOk)
                      => public_snapshots' = refreshPublicStatusSnapshot(clock, writeOk)
       /\ \A m \in DOMAIN monitor_state :
            (inv[i].pc = "running" /\ inv[i].jobs[m].st = "selected")
              => ENABLED RunDueMonitor(i, m, "up", TRUE)]_vars

\* C24 witness: the first tick is over and the snapshot written; both
\* monitors were due, monitor 1's batch failed and left nothing, monitor 2's
\* was applied.
C24_Witness ==
  /\ clock = 0
  /\ inv = <<>>
  /\ public_snapshots.valid
  /\ check_results[1] = <<>> /\ monitor_state[1] = NoState /\ outages[1] = <<>>
  /\ Len(check_results[2]) = 1 /\ monitor_state[2].last_checked_at = 0

\* ------------------------------------------------------- admin write routes
\* Bound: the admin routes have stored at most MaxAdminRows rows in all.
MaxAdminRows == 2

\* An optional field of a request body or a nullable column: {} when absent
\* or null, {v} when it holds v.

\* createMonitorInputSchema.parse(rawBody) succeeds.  A target is given by the
\* form of the string ("url" for scheme://host:port/, "hostport" for
\* host:port or [addr]:port), its scheme, its host (a name, an IPv4 literal
\* by its octets, or an IPv6 literal) and its port (0: none given).
createMonitorInputSchema(val) ==
  LET isValidPort(n) == n >= 1 /\ n <= 65535
      isAllowedPort(n) == n = 80 \/ n = 443 \/ (n >= 1024 /\ n <= 65535)
      \* The host string the validator looks at: URL.hostname serializes an
      \* IPv6 literal inside brackets, parseTcpTarget strips them.
      hostString(t, bracketed) ==
        [kind |-> t.host.kind, text |-> t.host.text, octets |-> t.host.octets,
         brackets |-> bracketed /\ t.host.kind = "ipv6"]
      isBlockedIpLiteral(h) ==
        IF h.kind = "ipv6"
          THEN ~h.brackets /\ h.text \in {"::1", "::", "fe80::1", "fc00::1", "fd00::1"}
        ELSE IF h.kind = "ipv4"
          THEN LET a == h.octets[1]
                   b == h.octets[2]
                   c == h.octets[3]
               IN \/ a = 0 \/ a = 10 \/ a = 127
                  \/ (a = 100 /\ b >= 64 /\ b <= 127)
                  \/ (a = 169 /\ b = 254)
                  \/ (a = 172 /\ b >= 16 /\ b <= 31)
                  \/ (a = 192 /\ b = 168)
                  \/ (a = 192 /\ b = 0 /\ c = 2)
                  \/ (a = 198 /\ b >= 18 /\ b <= 19)
                  \/ a >= 224
        ELSE FALSE
      validateHttpTarget(t) ==
        LET port == IF t.port # 0 THEN t.port ELSE IF t.scheme = "http" THEN 80 ELSE 443
            h == hostString(t, TRUE)
        IN /\ t.form = "url"
           /\ t.scheme \in {"http", "https"}
           /\ h.text # "localhost"
           /\ ~isBlockedIpLiteral(h)
           /\ isValidPort(port)
           /\ isAllowedPort(port)
      validateTcpTarget(t) ==
        LET h == hostString(t, FALSE)
        IN /\ t.form = "hostport"
           /\ isValidPort(t.port)
           /\ h.text # "localhost"
           /\ ~isBlockedIpLiteral(h)
           /\ isAllowedPort(t.port)
  IN /\ val.type \in {"http", "tcp"}
     /\ \A v \in val.interval_sec : v >= 60
     /\ \A v \in val.timeout_ms : v >= 1000
     /\ \A v \in val.http_method : v \in {"GET", "POST", "PUT", "PATCH", "DELETE", "HEAD"}
     /\ \A v \in val.expected_status_json :
          Len(v) >= 1 /\ \A k \in DOMAIN v : v[k] >= 100 /\ v[k] <= 599
     /\ IF val.type = "http" THEN validateHttpTarget(val.target)
        ELSE validateTcpTarget(val.target)
     /\ ~(val.type = "tcp"
            /\ (val.http_method # {} \/ val.expected_status_json # {}))

\* handleError: a ZodError is answered 400 INVALID_ARGUMENT.
InvalidArgument == [status |-> 400, code |-> "INVALID_ARGUMENT"]

\* POST /admin/monitors
PostMonitors(input) ==
  /\ Cardinality(monitors) + Cardinality(maintenance_windows)
       + Cardinality(incidents) < MaxAdminRows
  /\ IF ~createMonitorInputSchema(input)
       THEN /\ response' = InvalidArgument
            /\ UNCHANGED monitors
       ELSE LET inserted ==
                  [id |-> Cardinality(monitors) + 1,
                   type |-> input.type,
                   target |-> input.target,
                   interval_sec |-> IF input.interval_sec = {} THEN 60
                                    ELSE CHOOSE v \in input.interval_sec : TRUE,
                   timeout_ms |-> IF input.timeout_ms = {} THEN 10000
                                  ELSE CHOOSE v \in input.timeout_ms : TRUE,
                   http_method |-> IF input.type = "http" THEN input.http_method ELSE {},
                   expected_status_json |->
                     IF input.type = "http" THEN input.expected_status_json ELSE {},
                   is_active |-> TRUE,
                   created_at |-> clock]
            IN /\ monitors' = monitors \cup {inserted}
               /\ response' = [status |-> 201, code |-> "OK"]
  /\ UNCHANGED <<clock, locks, schedTables, maintenance_windows, channels, inv,
                 dispatchers, deliveryVars, rollupVars, lastInvocation,
                 public_snapshots, incidents, background, call>>

\* Mutant: the schema does not compare starts_at with ends_at.
createMaintenanceWindowInputSchema_noRefine(val) ==
  val.title # "" /\ val.monitor_ids # {}

\* createMaintenanceWindowInputSchema.parse(rawBody) succeeds.
createMaintenanceWindowInputSchema(val) ==
  /\ val.title # ""
  /\ val.monitor_ids # {}
  /\ ~(val.starts_at >= val.ends_at)

\* patchMaintenanceWindowInputSchema.parse(rawBody) succeeds: every field is
\* optional, a monitor_ids array has an element, one field at least is there.
patchMaintenanceWindowInputSchema(val) ==
  /\ \A v \in val.title : v # ""
  /\ \A v \in val.monitor_ids : v # {}
  /\ (val.title # {} \/ val.starts_at # {} \/ val.ends_at # {}
        \/ val.monitor_ids # {})

\* POST /admin/maintenance-windows: the window and its monitor links.
PostMaintenanceWindows(input) ==
  /\ Cardinality(monitors) + Cardinality(maintenance_windows)
       + Cardinality(incidents) < MaxAdminRows
  /\ IF ~createMaintenanceWindowInputSchema(input)
       THEN /\ response' = InvalidArgument
            /\ UNCHANGED maintenance_windows
       ELSE /\ maintenance_windows' = maintenance_windows \cup
                 {[id |-> Cardinality(maintenance_windows) + 1,
                   starts_at |-> input.starts_at,
                   ends_at |-> input.ends_at,
                   monitor_ids |-> input.monitor_ids]}
            /\ response' = [status |-> 201, code |-> "OK"]
  /\ UNCHANGED <<clock, locks, schedTables, channels, monitors, inv,
                 dispatchers, deliveryVars, rollupVars, lastInvocation,
                 public_snapshots, incidents, background, call>>

\* PATCH /admin/maintenance-windows/{id}: the fields supplied replace the
\* stored ones, the links are replaced when monitor_ids is supplied; the
\* resulting range is validated before the write.
PatchMaintenanceWindow(id, input) ==
  /\ IF ~patchMaintenanceWindowInputSchema(input)
       THEN response' = InvalidArgument /\ UNCHANGED maintenance_windows
     ELSE IF ~\E w \in maintenance_windows : w.id = id
       THEN response' = [status |-> 404, code |-> "NOT_FOUND"]
              /\ UNCHANGED maintenance_windows
     ELSE LET existing == CHOOSE w \in maintenance_windows : w.id = id
              pick(field, stored) == IF field = {} THEN stored
                                     ELSE CHOOSE v \in field : TRUE
              next == [id |-> id,
                       starts_at |-> pick(input.starts_at, existing.starts_at),
                       ends_at |-> pick(input.ends_at, existing.ends_at),
                       monitor_ids |-> pick(input.monitor_ids, existing.monitor_ids)]
          IN IF next.starts_at >= next.ends_at
               THEN response' = InvalidArgument /\ UNCHANGED maintenance_windows
               ELSE /\ maintenance_windows' =
                         (maintenance_windows \ {existing}) \cup {next}
                    /\ response' = [status |-> 200, code |-> "OK"]
  /\ UNCHANGED <<clock, locks, schedTables, channels, monitors, inv,
                 dispatchers, deliveryVars, rollupVars, lastInvocation,
                 public_snapshots, incidents, background, call>>

\* Mutant: creation takes any status of incidentStatusSchema.
createIncidentInputSchema_anyStatus(val) ==
  /\ val.title # ""
  /\ \A v \in val.status : v \in {"investigating", "identified", "monitoring", "resolved"}
  /\ \A v \in val.impact : v \in {"none", "minor", "major", "critical"}
  /\ \A v \in val.started_at : v > 0
  /\ val.monitor_ids # {}

\* createIncidentInputSchema.parse(rawBody) succeeds.
createIncidentInputSchema(val) ==
  /\ val.title # ""
  /\ \A v \in val.status : v \in {"investigating", "identified", "monitoring"}
  /\ \A v \in val.impact : v \in {"none", "minor", "major", "critical"}
  /\ \A v \in val.started_at : v > 0
  /\ val.monitor_ids # {}

\* createIncidentUpdateInputSchema.parse(rawBody) succeeds.
createIncidentUpdateInputSchema(val) ==
  /\ val.message # ""
  /\ \A v \in val.status : v \in {"investigating", "identified", "monitoring"}

\* POST /admin/incidents: the incident with the status, impact and start
\* given or their defaults, and its monitor links.
PostIncidents(input) ==
  /\ Cardinality(monitors) + Cardinality(maintenance_windows)
       + Cardinality(incidents) < MaxAdminRows
  /\ IF ~createIncidentInputSchema(input)
       THEN /\ response' = InvalidArgument
            /\ UNCHANGED incidents
       ELSE /\ incidents' = incidents \cup
                 {[id |-> Cardinality(incidents) + 1,
                   status |-> IF input.status = {} THEN "investigating"
                              ELSE CHOOSE v \in input.status : TRUE,
                   impact |-> IF input.impact = {} THEN "minor"
                              ELSE CHOOSE v \in input.impact : TRUE,
                   started_at |-> IF input.started_at = {} THEN clock
                                  ELSE CHOOSE v \in input.started_at : TRUE,
                   resolved_at |-> {},
                   monitor_ids |-> input.monitor_ids]}
            /\ response' = [status |-> 201, code |-> "OK"]
  /\ UNCHANGED <<clock, locks, schedTables, config, inv,
                 dispatchers, deliveryVars, rollupVars, lastInvocation,
                 public_snapshots, background, call>>

\* POST /admin/incidents/{id}/updates: the update is appended and the
\* incident takes the status supplied.  Whether an update of a resolved
\* incident is accepted is not laid down: either way (accepted).
PostIncidentUpdates(id, input, accepted) ==
  /\ IF ~createIncidentUpdateInputSchema(input)
       THEN response' = InvalidArgument /\ UNCHANGED incidents
     ELSE IF ~\E it \in incidents : it.id = id
       THEN response' = [status |-> 404, code |-> "NOT_FOUND"] /\ UNCHANGED incidents
     ELSE LET existing == CHOOSE it \in incidents : it.id = id
          IN IF existing.status = "resolved" /\ ~accepted
               THEN response' = [status |-> 409, code |-> "CONFLICT"]
                      /\ UNCHANGED incidents
               ELSE /\ incidents' =
                         (incidents \ {existing}) \cup
                           {[existing EXCEPT !.status =
                               IF input.status = {} THEN @
                               ELSE CHOOSE v \in input.status : TRUE]}
                    /\ response' = [status |-> 201, code |-> "OK"]
  /\ UNCHANGED <<clock, locks, schedTables, config, inv,
                 dispatchers, deliveryVars, rollupVars, lastInvocation,
                 public_snapshots, background, call>>

\* PATCH /admin/incidents/{id}/resolve: status resolved and resolved_at = now;
\* an incident already resolved is left as it is.
ResolveIncident(id) ==
  /\ IF ~\E it \in incidents : it.id = id
       THEN response' = [status |-> 404, code |-> "NOT_FOUND"] /\ UNCHANGED incidents
     ELSE LET existing == CHOOSE it \in incidents : it.id = id
          IN IF existing.status = "resolved"
               THEN response' = [status |-> 409, code |-> "CONFLICT"]
                      /\ UNCHANGED incidents
               ELSE /\ incidents' =
                         (incidents \ {existing}) \cup
                           {[existing EXCEPT !.status = "resolved",
                                             !.resolved_at = {clock}]}
                    /\ response' = [status |-> 200, code |-> "OK"]
  /\ UNCHANGED <<clock, locks, schedTables, config, inv,
                 dispatchers, deliveryVars, rollupVars, lastInvocation,
                 public_snapshots, background, call>>

\* The bodies of POST /admin/monitors at hand.
MonitorInputs ==
  LET host(kind, text, octets) == [kind |-> kind, text |-> text, octets |-> octets]
      example == host("name", "example.com", <<>>)
      targets ==
        {[form |-> "url", scheme |-> "https", host |-> h, port |-> 0] :
           h \in {example, host("name", "localhost", <<>>),
                  host("ipv4", "10.0.0.1", <<10, 0, 0, 1>>),
                  host("ipv6", "::1", <<>>)}}
        \cup {[form |-> "url", scheme |-> "https", host |-> example, port |-> 22],
              [form |-> "url", scheme |-> "ftp", host |-> example, port |-> 0]}
        \cup {[form |-> "hostport", scheme |-> "", host |-> h, port |-> 8080] :
                h \in {example, host("ipv4", "10.0.0.1", <<10, 0, 0, 1>>),
                       host("ipv6", "::1", <<>>)}}
        \cup {[form |-> "hostport", scheme |-> "", host |-> example, port |-> 22]}
  IN [type : {"http", "tcp", "udp"},
      target : targets,
      interval_sec : {{}, {59}},
      timeout_ms : {{}, {999}},
      http_method : {{}, {"GET"}},
      expected_status_json : {{}, {<<200>>}, {<<99>>}, {<<600>>}}]

\* No row has been written through the admin routes.
InitAdmin ==
  /\ Idle
  /\ public_snapshots = NoSnapshot
  /\ call = NoCall

\* The admin routes, with the bodies of the window and incident requests.
NextAdmin ==
  LET WindowInputs ==
        [title : {"", "t"}, starts_at : {0, 60}, ends_at : {0, 60, 120},
         monitor_ids : {{}, {1}, {1, 2}}]
      WindowPatches ==
        [title : {{}, {"t"}}, starts_at : {{}, {0}, {120}},
         ends_at : {{}, {0}, {120}}, monitor_ids : {{}, {{}}, {{2}}}]
      IncidentInputs ==
        [title : {"t"}, status : {{}, {"identified"}, {"resolved"}, {"closed"}},
         impact : {{}, {"major"}}, started_at : {{}, {0}, {10}},
         monitor_ids : {{}, {1}}]
      IncidentUpdates ==
        [message : {"", "m"}, status : {{}, {"monitoring"}, {"resolved"}}]
  IN
  \/ \E input \in MonitorInputs : PostMonitors(input)
  \/ \E input \in WindowInputs : PostMaintenanceWindows(input)
  \/ \E id \in 1..MaxAdminRows, input \in WindowPatches : PatchMaintenanceWindow(id, input)
  \/ \E input \in IncidentInputs : PostIncidents(input)
  \/ \E id \in 1..MaxAdminRows, input \in IncidentUpdates, accepted \in BOOLEAN :
       PostIncidentUpdates(id, input, accepted)
  \/ \E id \in 1..MaxAdminRows : ResolveIncident(id)

SpecAdmin == InitAdmin /\ [][NextAdmin]_vars

\* The claim's reasons to reject a monitor: the type, the interval, the
\* timeout, the expected statuses, the target's host (localhost, a blocked
\* IPv4 range, a blocked IPv6 address) or port, an http_* field for tcp.
failsMonitorValidation(input) ==
  LET t == input.target
      port == IF t.port # 0 THEN t.port ELSE IF t.scheme = "http" THEN 80 ELSE 443
  IN \/ input.type \notin {"http", "tcp"}
     \/ \E v \in input.interval_sec : v < 60
     \/ \E v \in input.timeout_ms : v < 1000
     \/ \E v \in input.expected_status_json : \E k \in DOMAIN v : v[k] < 100 \/ v[k] > 599
     \/ t.host.text \in {"localhost", "10.0.0.1", "::1"}
     \/ ~(port = 80 \/ port = 443 \/ (port >= 1024 /\ port <= 65535))
     \/ (input.type = "tcp"
           /\ (input.http_method # {} \/ input.expected_status_json # {}))

\* C25: POST /admin/monitors with an input that fails validation (type outside
\* {http, tcp}, interval_sec < 60, timeout_ms < 1000, expected status outside
\* [100, 599], a disallowed target host or port, or an http_* field supplied
\* for a tcp monitor) is rejected with 400 INVALID_ARGUMENT and leaves the
\* monitors table unchanged; every row inserted with type tcp has its
\* HTTP-only fields null.
C25_InvalidMonitorRejected ==
  [][\A input \in MonitorInputs :
       PostMonitors(input)
         => /\ failsMonitorValidation(input)
                 => (response' = InvalidArgument /\ monitors' = monitors)
            /\ \A row \in monitors' :
                 row.type = "tcp"
                   => (row.http_method = {} /\ row.expected_status_json = {})]_vars

C27_ResolvedOnlyByResolve ==
  [][/\ \A it \in incidents' :
          (it.status = "resolved"
             /\ ~\E old \in incidents : old.id = it.id /\ old.status = "resolved")
            => ResolveIncident(it.id)
     /\ \A it \in incidents' : it.monitor_ids # {}]_vars

\* C27 witness: an incident has been resolved by the resolve operation.
C27_Witness ==
  /\ response = [status |-> 200, code |-> "OK"]
  /\ \E it \in incidents : it.status = "resolved" /\ it.resolved_at = {0}

\* ------------------------------------------------ analytics and listings
\* Bound: the listed monitor has at most MaxListed outage rows, there are at
\* most MaxListed incidents, and a page holds up to MaxListed rows.
MaxListed == 3

\* computeRange, with rangeToSeconds: the window of a range at `now`.
computeRange(range, now) ==
  LET rangeToSeconds == CASE range = "24h" -> DAY
                           [] range = "7d" -> 7 * DAY
                           [] range = "30d" -> 30 * DAY
                           [] range = "90d" -> 90 * DAY
      end == IF range = "24h" THEN floorMinute(now) ELSE utcDayStart(now)
  IN [start |-> end - rangeToSeconds, end |-> end]

\* ORDER BY id DESC over a set of ids.
idDesc(ids) ==
  LET asc == SortedSeq(ids)
  IN [k \in 1..Len(asc) |-> asc[Len(asc) + 1 - k]]

\* GET /admin/analytics/overview: the totals of the response.  The monitors
\* are the rows with is_active = 1; an outage row's id is its place in the
\* insertion order.
overview(range, now) ==
  LET r == computeRange(range, now)
      rangeStartBase == r.start
      rangeEnd == r.end
      active == {m \in monitors : m.is_active}
      max(a, b) == IF a > b THEN a ELSE b
      min(a, b) == IF a < b THEN a ELSE b
      RECURSIVE total(_)
      total(ms) ==
        IF ms = {} THEN 0
        ELSE LET m == CHOOSE m \in ms : TRUE
             IN max(0, rangeEnd - max(rangeStartBase, m.created_at)) + total(ms \ {m})
      selected(id) ==
        SelectSeq(outages[id],
                  LAMBDA o : o.started_at < rangeEnd
                             /\ (o.ended_at = NULL \/ o.ended_at > rangeStartBase))
      clipped(id) ==
        SelectSeq([k \in DOMAIN selected(id) |->
                     [start |-> max(selected(id)[k].started_at, rangeStartBase),
                      end |-> min(IF selected(id)[k].ended_at = NULL THEN rangeEnd
                                  ELSE selected(id)[k].ended_at, rangeEnd)]],
                  LAMBDA it : it.end > it.start)
      RECURSIVE downtime(_)
      downtime(ms) ==
        IF ms = {} THEN 0
        ELSE LET m == CHOOSE m \in ms : TRUE
             IN sumIntervals(mergeIntervals(clipped(m.id))) + downtime(ms \ {m})
      total_sec == total(active)
      downtime_sec == downtime(active)
  IN [total_sec |-> total_sec,
      downtime_sec |-> downtime_sec,
      uptime_sec |-> max(0, total_sec - downtime_sec)]

\* Mutant: the query asks for `limit` rows, not one more.
take_limit(limit) == limit

\* const take = limit + 1
take(limit) == limit + 1

\* GET /admin/analytics/monitors/:id/outages for a monitor that exists: the
\* page and next_cursor (cursor NULL: the first page).
listOutages(id, range, now, limit, cursor) ==
  LET monitor == CHOOSE m \in monitors : m.id = id
      r == computeRange(range, now)
      rangeStart == IF r.start > monitor.created_at THEN r.start ELSE monitor.created_at
      rows == Limit(idDesc({k \in DOMAIN outages[id] :
                              /\ outages[id][k].started_at < r.end
                              /\ \/ outages[id][k].ended_at = NULL
                                 \/ outages[id][k].ended_at > rangeStart
                              /\ cursor # NULL => k < cursor}),
                    take(limit))
      page == Limit(rows, limit)
  IN [rows |-> page,
      next_cursor |-> IF Len(rows) > limit THEN page[Len(page)] ELSE NULL]

\* GET /public/incidents: the ids of the page and next_cursor.
listIncidents(limit, cursor) ==
  LET activeRows == Limit(startedAtDesc({it \in incidents : it.status # "resolved"}), limit)
      active == [k \in DOMAIN activeRows |-> activeRows[k].id]
      remaining == IF limit - Len(active) > 0 THEN limit - Len(active) ELSE 0
      allResolved ==
        Limit(idDesc({it.id : it \in {x \in incidents :
                                        /\ x.status = "resolved"
                                        /\ cursor # NULL => x.id < cursor}}),
              remaining + 1)
      resolved == Limit(allResolved, remaining)
  IN IF remaining > 0
       THEN [rows |-> active \o resolved,
             next_cursor |-> IF Len(allResolved) > remaining /\ Len(resolved) > 0
                               THEN resolved[Len(resolved)] ELSE NULL]
       ELSE [rows |-> active, next_cursor |-> NULL]

\* The tables as the routes find them, at 00:02:10 of a day.  Monitor 1 is
\* months old or was created 30 or 90 seconds into the day, monitor 2 (if
\* there) is months old; outage rows are what the scheduler writes: opened
\* and closed at minute marks, one after the other, none opened before the
\* minute the monitor was created in, only the last one ongoing.
InitReads ==
  /\ clock = 130
  /\ locks = {}
  /\ monitor_state = [m \in StatusMonitors |-> NoState]
  /\ check_results = [m \in StatusMonitors |-> <<>>]
  /\ maintenance_windows = {}
  /\ channels = {}
  /\ inv = <<>>
  /\ dispatchers = <<>>
  /\ notification_deliveries = {}
  /\ requests = <<>>
  /\ monitor_daily_rollups = {}
  /\ rollups = <<>>
  /\ lastInvocation = NoInvocation
  /\ public_snapshots = NoSnapshot
  /\ response = NoResponse
  /\ background = <<>>
  /\ call = NoCall
  /\ LET marks == {120 - DAY - 120, 120 - DAY - 60, 120 - DAY, 120 - DAY + 60, 0, 60, 120}
         history(ts) ==
           LET t == SortedSeq(ts)
           IN [k \in 1..((Len(t) + 1) \div 2) |->
                 [started_at |-> t[2 * k - 1],
                  ended_at |-> IF 2 * k <= Len(t) THEN t[2 * k] ELSE NULL]]
         histories(created) ==
           {history(ts) : ts \in {x \in SUBSET {t \in marks : t >= floorMinute(created)} :
                                    Cardinality(x) <= 2 * MaxListed}}
     IN \/ /\ incidents = {}
           /\ \E created \in {0 - 60 * DAY, 30, 90}, act \in BOOLEAN,
                 second \in {<<>>,
                             <<<<>>>>,
                             <<<<[started_at |-> 0, ended_at |-> 60]>>>>,
                             <<<<[started_at |-> 0 - DAY, ended_at |-> NULL]>>>>} :
                /\ monitors =
                     {[id |-> 1, created_at |-> created, is_active |-> act]}
                     \cup {[id |-> 2, created_at |-> 0 - 60 * DAY, is_active |-> TRUE] :
                             k \in DOMAIN second}
                /\ \E h \in histories(created) :
                     outages = [m \in StatusMonitors |->
                                  IF m = 1 THEN h
                                  ELSE IF second = <<>> THEN <<>> ELSE second[1]]
        \/ /\ monitors = {}
           /\ outages = [m \in StatusMonitors |-> <<>>]
           /\ \E n \in 0..MaxListed :
                \E res \in SUBSET (1..n) :
                  incidents =
                    {[id |-> k,
                      status |-> IF k \in res THEN "resolved" ELSE "investigating",
                      impact |-> "minor",
                      started_at |-> IF k = 1 THEN 100 ELSE 10 * k] : k \in 1..n}

\* One request to the overview.
GetOverview(range) ==
  /\ call = NoCall
  /\ response = NoResponse
  /\ response' = [status |-> 200, code |-> "overview", range |-> range,
                  data |-> overview(range, clock)]
  /\ UNCHANGED <<clock, locks, schedTables, config, inv, dispatchers,
                 deliveryVars, rollupVars, lastInvocation, public_snapshots,
                 incidents, background, call>>

\* One request to the outage listing: the first page, or the page after the
\* next_cursor of the page before.
GetMonitorOutages(id, range, limit, cursor) ==
  /\ \/ call = NoCall /\ response = NoResponse /\ cursor = NULL
     \/ /\ call.fn = "outages"
        /\ call.args = <<id, range, limit>>
        /\ cursor = call.next_cursor
        /\ cursor # NULL
  /\ IF ~\E m \in monitors : m.id = id
       THEN /\ response' = [status |-> 404, code |-> "NOT_FOUND"]
            /\ UNCHANGED call
       ELSE LET res == listOutages(id, range, clock, limit, cursor)
            IN /\ response' = [status |-> 200, code |-> "OK"]
               /\ call' = [fn |-> "outages", args |-> <<id, range, limit>>,
                           pages |-> IF call = NoCall THEN <<res.rows>>
                                     ELSE Append(call.pages, res.rows),
                           next_cursor |-> res.next_cursor]
  /\ UNCHANGED <<clock, locks, schedTables, config, inv, dispatchers,
                 deliveryVars, rollupVars, lastInvocation, public_snapshots,
                 incidents, background>>

\* One request to the public incident listing, likewise.
GetPublicIncidents(limit, cursor) ==
  /\ \/ call = NoCall /\ response = NoResponse /\ cursor = NULL
     \/ /\ call.fn = "incidents"
        /\ call.args = <<limit>>
        /\ cursor = call.next_cursor
        /\ cursor # NULL
  /\ LET res == listIncidents(limit, cursor)
     IN /\ response' = [status |-> 200, code |-> "OK"]
        /\ call' = [fn |-> "incidents", args |-> <<limit>>,
                    pages |-> IF call = NoCall THEN <<res.rows>>
                              ELSE Append(call.pages, res.rows),
                    next_cursor |-> res.next_cursor]
  /\ UNCHANGED <<clock, locks, schedTables, config, inv, dispatchers,
                 deliveryVars, rollupVars, lastInvocation, public_snapshots,
                 incidents, background>>

NextReads ==
  \/ \E range \in {"24h", "7d"} : GetOverview(range)
  \/ \E id \in StatusMonitors, range \in {"24h", "7d"}, limit \in 1..MaxListed,
        cursor \in {NULL} \cup (1..MaxListed) :
       GetMonitorOutages(id, range, limit, cursor)
  \/ \E limit \in 1..MaxListed, cursor \in {NULL} \cup (1..MaxListed) :
       GetPublicIncidents(limit, cursor)

SpecReads == InitReads /\ [][NextReads]_vars

\* The rows a walk has listed so far, page after page.
listed(pages) ==
  LET RECURSIVE cat(_)
      cat(k) == IF k = 0 THEN <<>> ELSE cat(k - 1) \o pages[k]
  IN cat(Len(pages))

\* C28: in the analytics overview, each active monitor's downtime is the
\* merged length of its outages clipped to
\* [max(rangeStart, monitor.created_at), rangeEnd), the window total_sec is
\* summed over; hence downtime_sec <= total_sec and
\* uptime_sec = total_sec - downtime_sec.
C28_OverviewDowntimeInMonitorWindow ==
  (response.status = 200 /\ response.code = "overview") =>
    LET r == computeRange(response.range, clock)
        windowStart(m) == IF r.start > m.created_at THEN r.start ELSE m.created_at
        clippedTo(m) ==
          LET os == outages[m.id]
              cut == [k \in DOMAIN os |->
                        [start |-> IF os[k].started_at > windowStart(m)
                                     THEN os[k].started_at ELSE windowStart(m),
                         end |-> IF os[k].ended_at = NULL \/ os[k].ended_at > r.end
                                   THEN r.end ELSE os[k].ended_at]]
          IN SelectSeq(cut, LAMBDA it : it.end > it.start)
        RECURSIVE expected(_)
        expected(ms) ==
          IF ms = {} THEN 0
          ELSE LET m == CHOOSE m \in ms : TRUE
               IN sumIntervals(mergeIntervals(clippedTo(m))) + expected(ms \ {m})
        d == response.data
    IN /\ d.downtime_sec = expected({m \in monitors : m.is_active})
       /\ d.downtime_sec <= d.total_sec
       /\ d.uptime_sec = d.total_sec - d.downtime_sec

\* C29: in the admin outage listing, following next_cursor from the first
\* page returns the outages of the monitor that overlap
\* [rangeStart, rangeEnd) in strictly descending id order (so each at most
\* once), at most `limit` rows per page, and next_cursor is null exactly
\* when every such outage has been returned.
C29_OutageWalkComplete ==
  call.fn = "outages" =>
    LET id == call.args[1]
        limit == call.args[3]
        monitor == CHOOSE m \in monitors : m.id = id
        r == computeRange(call.args[2], clock)
        rangeStart == IF r.start > monitor.created_at THEN r.start ELSE monitor.created_at
        os == outages[id]
        overlapping ==
          {k \in DOMAIN os :
             (IF os[k].started_at > rangeStart THEN os[k].started_at ELSE rangeStart)
               < (IF os[k].ended_at = NULL \/ os[k].ended_at > r.end
                    THEN r.end ELSE os[k].ended_at)}
        got == listed(call.pages)
        gotIds == {got[k] : k \in DOMAIN got}
    IN /\ \A k \in DOMAIN call.pages : Len(call.pages[k]) <= limit
       /\ \A i, j \in DOMAIN got : i < j => got[i] > got[j]
       /\ gotIds \subseteq overlapping
       /\ \A k \in overlapping \ gotIds : \A g \in gotIds : k < g
       /\ (call.next_cursor = NULL) <=> (gotIds = overlapping)

\* C29 witness: with limit 1, a walk of two pages returns outage 3 and then
\* outage 2 and ends; outage 1 ended before the range began.
C29_Witness ==
  /\ call.fn = "outages"
  /\ call.args = <<1, "24h", 1>>
  /\ call.pages = << <<3>>, <<2>> >>
  /\ call.next_cursor = NULL
  /\ Len(outages[1]) = 3
  /\ outages[1][1].ended_at = 120 - DAY - 60

\* C30: paging through GET /public/incidents with limit and next_cursor
\* yields the unresolved incidents first and then the resolved incidents in
\* descending id order, every incident exactly once over the pages and every
\* resolved incident reached.
C30_IncidentWalkComplete ==
  call.fn = "incidents" =>
    LET got == listed(call.pages)
        unresolved == startedAtDesc({it \in incidents : it.status # "resolved"})
    IN /\ \A i, j \in DOMAIN got : i # j => got[i] # got[j]
       /\ call.next_cursor = NULL =>
            got = [k \in DOMAIN unresolved |-> unresolved[k].id]
                    \o idDesc({it.id : it \in {x \in incidents : x.status = "resolved"}})

\* ------------------------------------------- the state a check leaves behind
\* The step is the persistence batch of invocation i for monitor m with a
\* probe outcome o.
persists(i, m, o) ==
  /\ inv[i].pc = "running"
  /\ inv[i].jobs[m].st = "selected"
  /\ Len(inv') = Len(inv)
  /\ inv'[i].jobs[m].st = "settled"
  /\ check_results'[m] = insertCheckResult(check_results[m], inv[i].checkedAt, o)

\* C31: for a check outcome of down, consecutive_failures becomes
\* previous + 1 and consecutive_successes 0; from a previous status of up,
\* unknown or none the next status is down with changed = true and
\* outageAction = open; from down it is down with changed = false and
\* outageAction = update; last_changed_at becomes checkedAt iff changed and
\* is otherwise carried forward.
C31_DownObservation ==
  [][\A i \in DOMAIN inv : \A m \in DOMAIN monitor_state :
       persists(i, m, "down") =>
         LET row == inv[i].jobs[m].row
             checkedAt == inv[i].checkedAt
             next == computeNextState(row, "down", checkedAt)
             stored == monitor_state'[m]
         IN /\ stored.consecutive_failures = row.consecutive_failures + 1
            /\ stored.consecutive_successes = 0
            /\ stored.status = "down"
            /\ row.status \in {"up", "unknown", "NULL"} =>
                 /\ next.changed
                 /\ next.outageAction = "open"
                 /\ hasOngoingOutage(outages'[m])
            /\ row.status = "down" =>
                 /\ ~next.changed
                 /\ next.outageAction = "update"
                 /\ outages'[m] = outages[m]
            /\ stored.last_changed_at =
                 IF next.changed THEN checkedAt ELSE row.last_changed_at]_vars

\* C31 witness: a monitor that went down at 0 was seen down again at 60: two
\* failures in a row, last_changed_at still 0.
C31_Witness ==
  \E m \in DOMAIN monitor_state :
    /\ monitor_state[m].status = "down"
    /\ monitor_state[m].consecutive_failures = 2
    /\ monitor_state[m].last_checked_at = 60
    /\ monitor_state[m].last_changed_at = 0

\* C32: for a check outcome of up, consecutive_successes becomes
\* previous + 1 and consecutive_failures 0; from a previous status of down
\* the next status is up with changed = true and outageAction = close;
\* otherwise it is up with changed = (previous # up) and outageAction = none;
\* last_changed_at becomes checkedAt iff changed and is otherwise carried
\* forward.
C32_UpObservation ==
  [][\A i \in DOMAIN inv : \A m \in DOMAIN monitor_state :
       persists(i, m, "up") =>
         LET row == inv[i].jobs[m].row
             checkedAt == inv[i].checkedAt
             next == computeNextState(row, "up", checkedAt)
             stored == monitor_state'[m]
         IN /\ stored.consecutive_successes = row.consecutive_successes + 1
            /\ stored.consecutive_failures = 0
            /\ stored.status = "up"
            /\ row.status = "down" =>
                 /\ next.changed
                 /\ next.outageAction = "close"
                 /\ ~hasOngoingOutage(outages'[m])
            /\ row.status # "down" =>
                 /\ next.changed = (row.status # "up")
                 /\ next.outageAction = "none"
                 /\ outages'[m] = outages[m]
            /\ stored.last_changed_at =
                 IF next.changed THEN checkedAt ELSE row.last_changed_at]_vars

\* C32 witness: a monitor that went down at 0 came up at 60 and was seen up
\* again at 120: the outage is closed, last_changed_at is still 60.
C32_Witness ==
  \E m \in DOMAIN monitor_state :
    /\ monitor_state[m].status = "up"
    /\ monitor_state[m].consecutive_successes = 2
    /\ monitor_state[m].last_checked_at = 120
    /\ monitor_state[m].last_changed_at = 60
    /\ outages[m] = <<[started_at |-> 0, ended_at |-> 60]>>

\* C33: last_error after a check is outcome.error on every down
\* observation, the value it had (in the row the tick selected, and in the
\* table) on an up observation of a monitor that was up, and null on an up
\* observation that moves the monitor to up from another status.
C33_LastErrorAfterCheck ==
  [][\A i \in DOMAIN inv : \A m \in DOMAIN monitor_state :
       LET row == inv[i].jobs[m].row
           stored == monitor_state'[m]
       IN /\ persists(i, m, "down") =>
               stored.last_error = outcomeError("down", inv[i].checkedAt)
          /\ (persists(i, m, "up") /\ row.status = "up") =>
               stored.last_error = row.last_error
          /\ (persists(i, m, "up") /\ monitor_state[m].status = "up") =>
               stored.last_error = monitor_state[m].last_error
          /\ (persists(i, m, "up") /\ row.status # "up") =>
               stored.last_error = {}]_vars

\* C33 witness: a monitor that went down at 0, its probe's message stored,
\* came up at 60: the stored message is cleared.
C33_Witness ==
  \E m \in DOMAIN monitor_state :
    /\ monitor_state[m].status = "up"
    /\ monitor_state[m].consecutive_successes = 1
    /\ monitor_state[m].last_error = {}
    /\ outages[m] = <<[started_at |-> 0, ended_at |-> 60]>>

\* ------------------------------------------- GET /status and its snapshot
\* A GET /status request was answered in this step.
answered == response' # response \/ Len(background') > Len(background)

\* C35: on GET /status, a snapshot read with age < 30 is served with no
\* rebuild and no write; a snapshot read with 30 <= age <= 60 is served as
\* stored while exactly one background recompute-and-write is started for
\* the request; with no usable snapshot (no row, or age > 60) the payload is
\* computed live with generated_at = now, served, and its write is left to
\* the background.  The request itself never writes the row.
C35_StatusRequestPaths ==
  [][LET stored == public_snapshots
         age == IF clock - stored.generated_at > 0
                  THEN clock - stored.generated_at ELSE 0
     IN /\ answered =>
             /\ response'.status = 200
             /\ public_snapshots' = stored
             /\ ~response'.live =>
                   /\ stored # NoSnapshot /\ stored.valid /\ age <= 60
                   /\ response'.data = stored
                   /\ age < 30 => background' = background
                   /\ age >= 30 => background' = Append(background, [task |-> "refresh"])
             /\ response'.live =>
                   /\ response'.data = computePublicStatusPayload(clock)
                   /\ response'.data.generated_at = clock
                   /\ background' = Append(background,
                                           [task |-> "write", payload |-> response'.data])
             /\ (stored = NoSnapshot \/ age > 60) => response'.live
        /\ (GetPublicStatus(TRUE) /\ stored # NoSnapshot /\ stored.valid /\ age <= 60)
             => ~response'.live
        /\ \A k \in DOMAIN background :
             (background[k].task = "refresh" /\ BackgroundRun(k, TRUE))
               => public_snapshots' = computePublicStatusPayload(clock)]_vars

\* C35 witness: the snapshot computed 30 seconds before the request was
\* served as stored, the refresh the request started has run and stored the
\* payload computed at the time it ran.
C35_Witness ==
  /\ response.status = 200
  /\ ~response.live
  /\ response.served_at = 0
  /\ response.data.generated_at = 0 - 30
  /\ background = <<>>
  /\ public_snapshots.valid
  /\ public_snapshots.generated_at = 55

\* ------------------------------------------------ ticks that keep coming
\* Two monitors under ticks that follow one another, with the cron trigger,
\* the probes and the clock going on: a cron invocation comes every minute,
\* a probe ends by its timeout at the latest.  A batch may fail as long as
\* the lease of its tick runs out within the time modelled, so that the tick
\* after it is part of the run.
NextDue ==
  \/ Advance
  \/ inv = <<>> /\ TickAcquire
  \/ \E i \in DOMAIN inv, writeOk \in BOOLEAN : TickNoneDue(i, writeOk)
  \/ \E i \in DOMAIN inv : TickSelect(i)
  \/ \E i \in DOMAIN inv, m \in DOMAIN monitor_state, o \in CheckStatuses,
        batchOk \in BOOLEAN :
        /\ batchOk \/ inv[i].now + LOCK_LEASE_SECONDS <= MaxTime
        /\ RunDueMonitor(i, m, o, batchOk)
  \/ \E i \in DOMAIN inv, writeOk \in BOOLEAN : TickFinish(i, writeOk)

SpecDue ==
  /\ InitFleet
  /\ [][NextDue]_vars
  /\ WF_vars(Advance)
  /\ WF_vars(inv = <<>> /\ TickAcquire)
  /\ WF_vars(\E i \in DOMAIN inv, writeOk \in BOOLEAN : TickNoneDue(i, writeOk))
  /\ WF_vars(\E i \in DOMAIN inv : TickSelect(i))
  /\ WF_vars(\E i \in DOMAIN inv, o \in CheckStatuses, batchOk \in BOOLEAN :
               /\ batchOk \/ inv[i].now + LOCK_LEASE_SECONDS <= MaxTime
               /\ RunDueMonitor(i, 1, o, batchOk))
  /\ WF_vars(\E i \in DOMAIN inv, o \in CheckStatuses, batchOk \in BOOLEAN :
               /\ batchOk \/ inv[i].now + LOCK_LEASE_SECONDS <= MaxTime
               /\ RunDueMonitor(i, 2, o, batchOk))
  /\ WF_vars(\E i \in DOMAIN inv, writeOk \in BOOLEAN : TickFinish(i, writeOk))

\* Monitor m is not paused and is due for the tick minute T.
isDue(m, T) ==
  /\ monitor_state[m].status # "paused"
  /\ \/ monitor_state[m].last_checked_at = NULL
     \/ monitor_state[m].last_checked_at <= T - interval_sec[m]

\* A check of monitor m for the minute T or a later one has been persisted.
checkedSince(m, T) ==
  /\ monitor_state[m].last_checked_at # NULL
  /\ monitor_state[m].last_checked_at >= T
  /\ \E k \in DOMAIN check_results[m] :
       check_results[m][k].checked_at = monitor_state[m].last_checked_at

\* Monitor m is due in the minute T, which is the current one, and the
\* modelled time still holds a lease's length.
dueInTime(m, T) ==
  /\ clock + LOCK_LEASE_SECONDS <= MaxTime
  /\ floorMinute(clock) = T
  /\ isDue(m, T)

C37_CheckRowsSpaced ==
  \A m \in DOMAIN check_results :
    /\ \A k \in DOMAIN check_results[m] :
         check_results[m][k].checked_at = floorMinute(check_results[m][k].checked_at)
    /\ \A j, k \in DOMAIN check_results[m] :
         j < k =>
           \/ check_results[m][k].checked_at - check_results[m][j].checked_at
                >= interval_sec[m]
           \/ check_results[m][j].checked_at - check_results[m][k].checked_at
                >= interval_sec[m]

\* ------------------------------------------- outages and the stored status
\* C38: after every persistence batch a monitor has an ongoing outage
\* (ended_at null) if and only if its stored status is down; no outage is
\* open while the status is up.
C38_OngoingOutageIffDown ==
  \A m \in DOMAIN monitor_state :
    (\E k \in DOMAIN outages[m] : outages[m][k].ended_at = NULL)
      <=> monitor_state[m].status = "down"

uptimeOver(m, rangeStart, rangeEnd) ==
  LET total_sec == IF rangeEnd - rangeStart > 0 THEN rangeEnd - rangeStart ELSE 0
      outageRows ==
        SelectSeq(outages[m], LAMBDA r :
          r.started_at < rangeEnd /\ (r.ended_at = NULL \/ r.ended_at > rangeStart))
      clamped ==
        [k \in DOMAIN outageRows |->
           LET r == outageRows[k]
               e == IF r.ended_at = NULL THEN rangeEnd ELSE r.ended_at
           IN [start |-> IF r.started_at >= rangeStart THEN r.started_at ELSE rangeStart,
               end |-> IF e <= rangeEnd THEN e ELSE rangeEnd]]
      downtimeIntervals ==
        mergeIntervals(SelectSeq(clamped, LAMBDA it : it.end > it.start))
      downtime_sec == sumIntervals(downtimeIntervals)
      checksStart == rangeStart - interval_sec[m] * 2
      selectedChecks ==
        SelectSeq(check_results[m], LAMBDA r :
          r.checked_at >= checksStart /\ r.checked_at < rangeEnd)
      unknownIntervals ==
        buildUnknownIntervals(rangeStart, rangeEnd, interval_sec[m],
          [k \in DOMAIN selectedChecks |->
             [checked_at |-> selectedChecks[k].checked_at,
              status |-> toCheckStatus(selectedChecks[k].status)]])
      unknownRaw == sumIntervals(unknownIntervals)
                      - overlapSeconds(unknownIntervals, downtimeIntervals)
      unknown_sec == IF unknownRaw > 0 THEN unknownRaw ELSE 0
      unavailable_sec == IF total_sec <= downtime_sec + unknown_sec THEN total_sec
                         ELSE downtime_sec + unknown_sec
      uptime_sec == IF total_sec - unavailable_sec > 0
                      THEN total_sec - unavailable_sec ELSE 0
  IN [range_start_at |-> rangeStart, range_end_at |-> rangeEnd,
      total_sec |-> total_sec, downtime_sec |-> downtime_sec,
      unknown_sec |-> unknown_sec, uptime_sec |-> uptime_sec]

\* GET /monitors/:id/uptime, range 24h.
GetMonitorUptime(id) ==
  /\ response = NoResponse
  /\ LET now == clock
         rangeEnd == floorMinute(now)
         requestedRangeStart == rangeEnd - DAY
         rangeStart == IF requestedRangeStart >= created_at[id]
                         THEN requestedRangeStart ELSE created_at[id]
     IN response' = [status |-> 200, code |-> "uptime", monitor |-> id,
                     data |-> uptimeOver(id, rangeStart, rangeEnd)]
  /\ UNCHANGED <<clock, locks, schedTables, config, inv, dispatchers,
                 deliveryVars, rollupVars, lastInvocation, public_snapshots,
                 incidents, background, call>>

\* GET /admin/analytics/monitors/:id, range 24h: an empty range is answered
\* with zeros before anything is read.
GetMonitorAnalytics(id) ==
  /\ response = NoResponse
  /\ LET range == computeRange("24h", clock)
         rangeStart == IF range.start >= created_at[id] THEN range.start
                       ELSE created_at[id]
         rangeEnd == range.end
     IN response' =
          [status |-> 200, code |-> "analytics", monitor |-> id,
           data |-> IF rangeEnd <= rangeStart
                      THEN [range_start_at |-> rangeStart, range_end_at |-> rangeEnd,
                            total_sec |-> 0, downtime_sec |-> 0,
                            unknown_sec |-> 0, uptime_sec |-> 0]
                      ELSE uptimeOver(id, rangeStart, rangeEnd)]
  /\ UNCHANGED <<clock, locks, schedTables, config, inv, dispatchers,
                 deliveryVars, rollupVars, lastInvocation, public_snapshots,
                 incidents, background, call>>

\* The daily rollup and the two live computations over the same tables.
\* The requests come in the minute of the rollup, so that the last 24 hours
\* are the day rolled up; one rollup runs (runs that overlap or follow one
\* another are the subject of SpecRollup).
NextUptime ==
  \/ rollups = <<>> /\ RollupAcquire
  \/ \E j \in DOMAIN rollups : RollupRun(j)
  \/ \E id \in DOMAIN monitor_state : GetMonitorUptime(id)
  \/ \E id \in DOMAIN monitor_state : GetMonitorAnalytics(id)

SpecUptime == InitRollup /\ [][NextUptime]_vars

\* C40: in the daily rollup and in the live 24h uptime computations,
\* downtime_sec + unknown_sec <= total_sec, and uptime_sec + downtime_sec +
\* unknown_sec = total_sec exactly, for any outages and any chronologically
\* ordered checks.
C40_UptimeSumsToTotal ==
  /\ \A r \in monitor_daily_rollups :
       /\ r.downtime_sec + r.unknown_sec <= r.total_sec
       /\ r.uptime_sec + r.downtime_sec + r.unknown_sec = r.total_sec
  /\ response.status = 200 =>
       /\ response.data.downtime_sec + response.data.unknown_sec
            <= response.data.total_sec
       /\ response.data.uptime_sec + response.data.downtime_sec
            + response.data.unknown_sec = response.data.total_sec

\* C40 witness: the day had an outage and unknown time, part of it inside
\* the outage; the rollup row is stored and the uptime route has answered
\* for the same day.
C40_Witness ==
  /\ response.status = 200
  /\ response.code = "uptime"
  /\ response.data.range_end_at = 0
  /\ response.data.downtime_sec = 180
  /\ response.data.unknown_sec = DAY - 180
  /\ response.data.uptime_sec = 0
  /\ \E r \in monitor_daily_rollups :
       /\ r.monitor_id = response.monitor
       /\ r.downtime_sec = 180
       /\ r.unknown_sec = DAY - 180

====
